---- MODULE Spec2Model ----
(***************************************************************************)
(* A model of the bookstore backend: the CSV import command               *)
(* (books/management/commands/import_books.py) and the catalog API        *)
(* (books/views.py, books/serializers.py) over the relational schema of   *)
(* books/models.py.                                                        *)
(*                                                                         *)
(* A nullable column is modelled as a set: {} is NULL, {v} holds v.       *)
(* Free text is modelled by the parts the code splits it into.            *)
(***************************************************************************)
EXTENDS Integers, Sequences, FiniteSets, TLC

\* ------------------------------------------------------------------ bounds
MaxRows == 2         \* records read by one import run (Spec)
MaxRuns == 2         \* import runs in one behaviour (Spec)

\* ------------------------------------------------------- program constants
MaxErrors == 100     \* import_books.py:110  books_with_errors > 100
GenreLimit == 5      \* import_books.py:534  genres_list[:5]
CharacterLimit == 10 \* import_books.py:556  characters_list[:10]
AwardLimit == 10     \* import_books.py:576  awards_list[:10]

\* ------------------------------------------------------------------- state
VARIABLES
    \* the datastore (committed rows)
    books,          \* set of Book rows
    nextBookId,     \* the Book table's id sequence
    ents,           \* [EntityTypes -> set of rows [id, key, name]]
    nextId,         \* [EntityTypes -> next id of that table]
    links,          \* many-to-many rows: <<type, book id, entity id>>
    favorites,      \* Favorite rows: <<user, book id>>
    \* the import command (Command.handle)
    ipc,            \* "idle" | "loop" | "create" | "attach" | "commit" | "done" | "failed"
    opts,           \* [batch_size, limit, skip_duplicates, seed]
    row_num,        \* number of records taken from the reader so far
    books_created, books_skipped, books_with_errors,
    batch,          \* batch_books zipped with batch_rows: Seq of [k, data, row]
    bi,             \* position of create_books_batch in the batch
    final,          \* TRUE when the running flush is the one after the loop
    tx,             \* the open transaction.atomic() block: {} or {[book, links, ents, nextId]}
    report,         \* the printed summary: {} or {[created, skipped, errors]}
    runs,           \* import runs started
    \* history of the running import (not read by the code)
    accepted,       \* indexes of the records process_row returned data for
    attempted,      \* Seq of the indexes Book.objects.create was called for
    failed,         \* indexes of the records whose Book creation raised
    committed,      \* ids of the Book rows the run committed
    dup_seen,       \* indexes of the records read with skip-duplicates on whose
                    \* isbn a Book row held when they were read
    prior,          \* what the import run before the last clear_books_data left:
                    \* {} or {[opts, report, contents]}
    \* the catalog API
    resp,           \* the response to the last API request
    streak,         \* history: the run of successful toggles of one (user, book)
                    \* that the last request ended: [user, book, n, before]
    \* the identity provider and LogoutView
    outstanding,    \* the refresh tokens issued: set of [jti, user, exp]
    blacklist,      \* jtis of the blacklisted refresh tokens
    now,            \* the clock the tokens' expiry is compared with
    logout,         \* the response to the last logout request:
                    \* [caller, status, jti, was]; was: the state of the
                    \* presented token when the request arrived
    \* concurrent favorite requests (FavoriteViewSet.toggle, FavoriteSerializer.create)
    procs,          \* the requests in flight or answered: Seq of
                    \* [kind, user, book, pc, held, created, status]
    favRows,        \* the Favorite table with its primary keys: set of [id, user, book]
    nextFavId,      \* the Favorite table's id sequence
    \* the web middleware (JWTAuthenticationMiddleware)
    mw,             \* the last request it processed: [path, cookie, was, action, user, seen]
    \* the clean_genres command
    cleanup         \* its last run: [n, dry_run, found, renamed, merged]

dbvars == <<books, nextBookId, ents, nextId, links, favorites>>
impvars == <<ipc, opts, row_num, books_created, books_skipped, books_with_errors,
             batch, bi, final, tx, report, runs>>
histvars == <<accepted, attempted, failed, committed, dup_seen, prior>>
apivars == <<resp, streak>>
authvars == <<outstanding, blacklist, now, logout>>
concvars == <<procs, favRows, nextFavId>>
webvars == <<mw>>
cleanvars == <<cleanup>>
sidevars == <<concvars, webvars, cleanvars>>
vars == <<dbvars, impvars, histvars, apivars, authvars, sidevars>>

\* ------------------------------------------------------------------ schema
EntityTypes == {"author", "category", "publisher", "language", "series",
                "genre", "character", "award"}

Min(a, b) == IF a < b THEN a ELSE b

Take(s, n) == SubSeq(s, 1, Min(Len(s), n))

\* Model.objects.get_or_create(**key, defaults=...): the row with that key, made
\* if there is none; MultipleObjectsReturned when several rows match.
\* E, N: the tables and id sequences the call sees.
GetOrCreateAlwaysInsert(E, N, type, key, name) ==
    [ok |-> TRUE, id |-> {N[type]},
     E |-> [E EXCEPT ![type] = @ \cup {[id |-> N[type], key |-> key, name |-> name]}],
     N |-> [N EXCEPT ![type] = @ + 1]]

GetOrCreate(E, N, type, key, name) ==
    LET found == {e \in E[type] : e.key = key}
    IN  IF found = {}
        THEN [ok |-> TRUE, id |-> {N[type]},
              E |-> [E EXCEPT ![type] = @ \cup {[id |-> N[type], key |-> key, name |-> name]}],
              N |-> [N EXCEPT ![type] = @ + 1]]
        ELSE IF Cardinality(found) = 1
        THEN [ok |-> TRUE, id |-> {e.id : e \in found}, E |-> E, N |-> N]
        ELSE [ok |-> FALSE, id |-> {}, E |-> E, N |-> N]

\* ------------------------------------------------------------- CSV records
\* A record of the CSV as csv.DictReader hands it over.  short = "head": the line
\* ends before the isbn column, so title, author or isbn is None; short = "tail":
\* the line ends before the description column, which is then None.
\* author: the comma-separated names; series: [name, num] for "name #num";
\* genres, characters: the names of the bracketed list; awards: [name, year] with
\* year = {} when the name carries no "(year)"; isbn: "" when empty; coverImg: the
\* text of the column.
BlankSeries == [name |-> "", num |-> 0]

\* A date column: "none" (empty or None), "slash2" for a/b/yy, "slash4" for
\* a/b/yyyy, "iso" for yyyy-a-b, "junk" for any other text.
NoDate == [shape |-> "none", a |-> 0, b |-> 0, y |-> 0]

\* A numeric column (price in cents, rating in hundredths, likedPercent): "empty",
\* "number" with its value n, or "junk" for text that is no number.
NoNumber == [shape |-> "empty", n |-> 0]

RowFull ==
    [short |-> "no", title |-> "T1", author |-> <<"A1">>, isbn |-> "I1",
     genres |-> <<"G1", "G2">>, publisher |-> "P1", language |-> "English",
     series |-> [name |-> "S1", num |-> 1], characters |-> <<"C1">>,
     awards |-> <<[name |-> "W1", year |-> {2001}]>>,
     publishDate |-> NoDate, firstPublishDate |-> NoDate, price |-> NoNumber,
     rating |-> NoNumber, likedPercent |-> NoNumber, coverImg |-> ""]

RowSameIsbn ==
    [short |-> "no", title |-> "T2", author |-> <<"A2", "A1">>, isbn |-> "I1",
     genres |-> <<"G2">>, publisher |-> "", language |-> "Enochian",
     series |-> [name |-> "S1", num |-> 2], characters |-> <<>>,
     awards |-> <<[name |-> "W1", year |-> {}]>>,
     publishDate |-> NoDate, firstPublishDate |-> NoDate, price |-> NoNumber,
     rating |-> NoNumber, likedPercent |-> NoNumber, coverImg |-> ""]

RowNoIsbn ==
    [short |-> "no", title |-> "T3", author |-> <<"A1">>, isbn |-> "",
     genres |-> <<>>, publisher |-> "P1", language |-> "",
     series |-> BlankSeries, characters |-> <<"C1">>, awards |-> <<>>,
     publishDate |-> NoDate, firstPublishDate |-> NoDate, price |-> NoNumber,
     rating |-> NoNumber, likedPercent |-> NoNumber, coverImg |-> ""]

RowBlank ==
    [short |-> "no", title |-> "", author |-> <<"A1">>, isbn |-> "I2",
     genres |-> <<"G1">>, publisher |-> "P1", language |-> "English",
     series |-> BlankSeries, characters |-> <<>>, awards |-> <<>>,
     publishDate |-> NoDate, firstPublishDate |-> NoDate, price |-> NoNumber,
     rating |-> NoNumber, likedPercent |-> NoNumber, coverImg |-> ""]

RowShortHead ==
    [short |-> "head", title |-> "T4", author |-> <<>>, isbn |-> "",
     genres |-> <<>>, publisher |-> "", language |-> "",
     series |-> BlankSeries, characters |-> <<>>, awards |-> <<>>,
     publishDate |-> NoDate, firstPublishDate |-> NoDate, price |-> NoNumber,
     rating |-> NoNumber, likedPercent |-> NoNumber, coverImg |-> ""]

RowShortTail ==
    [short |-> "tail", title |-> "T5", author |-> <<"A3">>, isbn |-> "I2",
     genres |-> <<"G3">>, publisher |-> "", language |-> "",
     series |-> BlankSeries, characters |-> <<>>, awards |-> <<>>,
     publishDate |-> NoDate, firstPublishDate |-> NoDate, price |-> NoNumber,
     rating |-> NoNumber, likedPercent |-> NoNumber, coverImg |-> ""]

Rows == {RowFull, RowSameIsbn, RowNoIsbn, RowBlank, RowShortHead, RowShortTail}

\* ------------------------------------------------------- process_row parts
\* isbn of the Book: the column, or AUTO + hash(title + author) of this process
\* when the column is empty (the sentinel and over-long values take the same
\* branch).  An ISBN is [auto, text, seed, title, author].
NormIsbn(row, seed) ==
    IF row.isbn = "" \/ row.isbn = "9999999999999"
    THEN [auto |-> TRUE, text |-> "", seed |-> seed, title |-> row.title,
          author |-> row.author]
    ELSE [auto |-> FALSE, text |-> row.isbn, seed |-> 0, title |-> "",
          author |-> <<>>]

\* get_or_create_author: the first of several comma-separated names.
AuthorName(author) == author[1]

\* get_or_create_language: the fixed table, else the first two letters, lowered.
LanguageCode(language_name) ==
    CASE language_name = "English" -> "en"
      [] language_name = "French" -> "fr"
      [] language_name = "Enochian" -> "en"
      [] OTHER -> "??"

\* A get_or_create that is not called: the column is empty.
NotResolved(E, N) == [ok |-> TRUE, id |-> {}, E |-> E, N |-> N]

\* ---------------------------------------------------------------- parsers
\* Dates are yyyymmdd numbers.
DefaultDate == 20000101
MinYear == 1900
MaxYear == 2030

Ymd(y, m, d) == y * 10000 + m * 100 + d

YearOf(date) == date \div 10000

IsLeap(y) == (y % 4 = 0 /\ y % 100 # 0) \/ y % 400 = 0

DaysIn(m, y) ==
    IF m = 2 THEN (IF IsLeap(y) THEN 29 ELSE 28)
    ELSE IF m \in {4, 6, 9, 11} THEN 30 ELSE 31

ValidDate(y, m, d) == y \in 1..9999 /\ m \in 1..12 /\ d \in 1..DaysIn(m, y)

\* The patterns parse_date() tries, in its order.
DateFormats == <<"%m/%d/%y", "%m/%d/%Y", "%Y-%m-%d", "%d/%m/%Y">>

\* datetime.strptime(text, fmt).date(): {} for ValueError, else {date}.  %y reads
\* two digits (69-99 are 19yy, 00-68 are 20yy), %Y four.
Strptime(t, fmt) ==
    LET yy == IF t.y >= 69 THEN 1900 + t.y ELSE 2000 + t.y
    IN  CASE fmt = "%m/%d/%y" ->
               IF t.shape = "slash2" /\ ValidDate(yy, t.a, t.b)
               THEN {Ymd(yy, t.a, t.b)} ELSE {}
          [] fmt = "%m/%d/%Y" ->
               IF t.shape = "slash4" /\ ValidDate(t.y, t.a, t.b)
               THEN {Ymd(t.y, t.a, t.b)} ELSE {}
          [] fmt = "%Y-%m-%d" ->
               IF t.shape = "iso" /\ ValidDate(t.y, t.a, t.b)
               THEN {Ymd(t.y, t.a, t.b)} ELSE {}
          [] fmt = "%d/%m/%Y" ->
               IF t.shape = "slash4" /\ ValidDate(t.y, t.b, t.a)
               THEN {Ymd(t.y, t.b, t.a)} ELSE {}

\* One turn of the loop over the patterns: the date parsed with the pattern, kept
\* when its year is in [MinYear, MaxYear].
TryFormat(t, fmt) ==
    {x \in Strptime(t, fmt) : YearOf(x) >= MinYear /\ YearOf(x) <= MaxYear}

\* The loop over the patterns: the date of the first pattern that gives one, {}
\* when the loop ends without one.
TryFormats(t) ==
    LET hits == {i \in 1..Len(DateFormats) : TryFormat(t, DateFormats[i]) # {}}
    IN  IF hits = {} THEN {}
        ELSE TryFormat(t, DateFormats[CHOOSE i \in hits : \A k \in hits : i <= k])

\* django.utils.dateparse.parse_date: a date for yyyy-m-d text, None ({}) for text
\* of another shape, ValueError (ok = FALSE) for yyyy-m-d text that is no date.
DjangoParseDate(t) ==
    IF t.shape # "iso" THEN [ok |-> TRUE, date |-> {}]
    ELSE IF ValidDate(t.y, t.a, t.b) THEN [ok |-> TRUE, date |-> {Ymd(t.y, t.a, t.b)}]
    ELSE [ok |-> FALSE, date |-> {}]

ParseDate(t) ==
    IF t.shape = "none" THEN DefaultDate
    ELSE LET r == TryFormats(t)
             j == DjangoParseDate(t)
         IN  IF r # {} THEN CHOOSE x \in r : TRUE
             ELSE IF j.ok /\ j.date # {} THEN CHOOSE x \in j.date : TRUE
             ELSE DefaultDate

\* parse_price, in cents.
DefaultPrice == 999
PriceLimit == 100000

ParsePrice(t) ==
    IF t.shape = "number" /\ t.n > 0 /\ t.n < PriceLimit THEN t.n ELSE DefaultPrice

\* parse_int: None is {}.
IntLimit == 10000

ParseInt(t) == IF t.shape = "number" /\ 0 < t.n /\ t.n < IntLimit THEN {t.n} ELSE {}

\* parse_rating, in hundredths.
RatingLimit == 500

ParseRating(t) ==
    IF t.shape = "number" /\ 0 <= t.n /\ t.n <= RatingLimit THEN {t.n} ELSE {}

\* The Book(**book_data) of a record: the columns the model keeps.  A Book made
\* without a cover file stores '' in cover_image, and cover_image_url holds the
\* text of coverImg, '' when the column is empty.
\* price is in cents, average_rating in hundredths, publication_date yyyymmdd.
BookData(row, isbn, author, category, publisher, language, series) ==
    [isbn |-> isbn, title |-> row.title, description |-> "desc",
     author |-> author, category |-> category, publisher |-> publisher,
     language |-> language, series |-> series, book_format |-> {},
     price |-> ParsePrice(row.price),
     average_rating |-> ParseRating(row.rating),
     liked_percent |-> ParseInt(row.likedPercent),
     publication_date |->
         ParseDate(IF row.publishDate.shape # "none" THEN row.publishDate
                   ELSE row.firstPublishDate),
     cover_image |-> {""}, cover_image_url |-> {row.coverImg}]

NoData == BookData(RowBlank, NormIsbn(RowBlank, 0), {}, {}, {}, {}, {})

\* What process_row does after the blank and duplicate checks: resolve author,
\* category, publisher, language and series in that order (each get_or_create is
\* committed at once), then build the dict, which raises on a None description.
ResolveAndBuild(row, isbn, E, N) ==
    LET a == GetOrCreate(E, N, "author", AuthorName(row.author), AuthorName(row.author))
        c == IF row.genres = <<>> THEN NotResolved(a.E, a.N)
             ELSE GetOrCreate(a.E, a.N, "category", row.genres[1], row.genres[1])
        p == IF row.publisher = "" THEN NotResolved(c.E, c.N)
             ELSE GetOrCreate(c.E, c.N, "publisher", row.publisher, row.publisher)
        l == IF row.language = "" THEN NotResolved(p.E, p.N)
             ELSE GetOrCreate(p.E, p.N, "language", LanguageCode(row.language), row.language)
        s == IF row.series.name = "" THEN NotResolved(l.E, l.N)
             ELSE GetOrCreate(l.E, l.N, "series", row.series.name, row.series.name)
    IN  IF ~a.ok
        THEN [outcome |-> "error", E |-> a.E, N |-> a.N, data |-> NoData]
        ELSE IF row.short = "tail"
        THEN [outcome |-> "error", E |-> s.E, N |-> s.N, data |-> NoData]
        ELSE [outcome |-> "data", E |-> s.E, N |-> s.N,
              data |-> BookData(row, isbn, a.id, c.id, p.id, l.id, s.id)]

\* process_row with the duplicate check moved behind the author lookup.
ProcessRowResolveFirst(row, skip, seed, B, E, N) ==
    LET isbn == NormIsbn(row, seed)
        r == ResolveAndBuild(row, isbn, E, N)
    IN  IF row.short = "head"
        THEN [outcome |-> "error", E |-> E, N |-> N, data |-> NoData]
        ELSE IF row.title = "" \/ row.author = <<>>
        THEN [outcome |-> "skip", E |-> E, N |-> N, data |-> NoData]
        ELSE IF skip /\ \E b \in B : b.isbn = isbn
        THEN [outcome |-> "skip", E |-> r.E, N |-> r.N, data |-> NoData]
        ELSE r

\* process_row(row, skip_duplicates) against the Book table B and the entity
\* tables E, N: "data" with the dict, "skip" for None, "error" for an exception.
ProcessRow(row, skip, seed, B, E, N) ==
    LET isbn == NormIsbn(row, seed)
    IN  IF row.short = "head"
        THEN [outcome |-> "error", E |-> E, N |-> N, data |-> NoData]
        ELSE IF row.title = "" \/ row.author = <<>>
        THEN [outcome |-> "skip", E |-> E, N |-> N, data |-> NoData]
        ELSE IF skip /\ \E b \in B : b.isbn = isbn
        THEN [outcome |-> "skip", E |-> E, N |-> N, data |-> NoData]
        ELSE ResolveAndBuild(row, isbn, E, N)

\* add_genres_to_book / add_characters_to_book / add_awards_to_book: get_or_create
\* each name and add it to the book; an exception ends the loop and is swallowed.
\* S = [E, N, L]: the tables and the many-to-many rows as the transaction sees them.
RECURSIVE AddAll(_, _, _, _)
AddAll(S, type, keys, book_id) ==
    IF keys = <<>> THEN S
    ELSE LET g == GetOrCreate(S.E, S.N, type, Head(keys), Head(keys))
         IN  IF ~g.ok THEN S
             ELSE AddAll([E |-> g.E, N |-> g.N,
                          L |-> S.L \cup {<<type, book_id, i>> : i \in g.id}],
                         type, Tail(keys), book_id)

\* The three add_* calls of create_books_batch, in the order of the code.
AttachRow(S, row, book_id) ==
    LET g == AddAll(S, "genre", Take(row.genres, GenreLimit), book_id)
        c == AddAll(g, "character", Take(row.characters, CharacterLimit), book_id)
    IN  AddAll(c, "award", Take(row.awards, AwardLimit), book_id)

\* --------------------------------------------------------- Command.handle
Summary == [created |-> books_created, skipped |-> books_skipped,
            errors |-> books_with_errors]

AfterLoopNoFlush(b) ==
    /\ ipc' = "done"
    /\ bi' = bi
    /\ final' = final
    /\ report' = {Summary'}

\* The code after the for loop, entered with the batch b: flush what is pending,
\* then print the summary.
AfterLoop(b) ==
    IF b # <<>>
    THEN /\ ipc' = "create"
         /\ bi' = 1
         /\ final' = TRUE
         /\ report' = report
    ELSE /\ ipc' = "done"
         /\ bi' = bi
         /\ final' = final
         /\ report' = {Summary'}

\* create_books_batch goes on with the next book of the batch; after the last one
\* it returns, to the loop (which empties the batch) or to the summary.
Advance ==
    IF bi < Len(batch)
    THEN /\ ipc' = "create"
         /\ bi' = bi + 1
         /\ UNCHANGED <<batch, report>>
    ELSE IF final
    THEN /\ ipc' = "done"
         /\ report' = {Summary}
         /\ UNCHANGED <<batch, bi>>
    ELSE /\ ipc' = "loop"
         /\ batch' = <<>>
         /\ UNCHANGED <<bi, report>>

\* The exception leaves create_books_batch: the rest of the batch is dropped.
OnCreateErrorPropagates ==
    IF final
    THEN /\ ipc' = "done"
         /\ report' = {Summary}
         /\ UNCHANGED <<batch, bi>>
    ELSE /\ ipc' = "loop"
         /\ batch' = <<>>
         /\ UNCHANGED <<bi, report>>

\* except Exception in create_books_batch: log, go on with the other books.
OnCreateError == Advance

\* manage.py import_books csv --batch-size bs [--limit lim] [--skip-duplicates]
\* The header columns handle() requires, and those of them a header lacks.
RequiredFields == {"title", "author", "isbn"}

MissingFieldsIgnored(fieldnames) == {}

MissingFields(fieldnames) == RequiredFields \ fieldnames

\* handle() up to the loop: with a required column missing it raises CommandError
\* (re-raised by the outer except) and the command ends there.
StartImport(fieldnames, bs, lim, skip, seed) ==
    /\ ipc \in {"idle", "done", "failed"}
    /\ ipc' = IF MissingFields(fieldnames) # {} THEN "failed" ELSE "loop"
    /\ opts' = [fieldnames |-> fieldnames, batch_size |-> bs, limit |-> lim,
                skip_duplicates |-> skip, seed |-> seed]
    /\ runs' = runs + 1
    /\ row_num' = 0
    /\ books_created' = 0
    /\ books_skipped' = 0
    /\ books_with_errors' = 0
    /\ batch' = <<>>
    /\ report' = {}
    /\ accepted' = {}
    /\ attempted' = <<>>
    /\ failed' = {}
    /\ committed' = {}
    /\ dup_seen' = {}
    /\ prior' = prior
    /\ UNCHANGED <<dbvars, bi, final, tx, apivars, authvars, sidevars>>

\* The record has title, author and isbn, skip-duplicates is on and a Book row
\* holds its isbn now.
HoldsIsbnOf(row) ==
    /\ opts.skip_duplicates
    /\ row.short # "head"
    /\ row.title # ""
    /\ row.author # <<>>
    /\ \E b \in books : b.isbn = NormIsbn(row, opts.seed)

\* One turn of the loop for the k-th record, with r what process_row returned for
\* it and b the batch after it.
LoopTurn(row, k, r, b) ==
        /\ ipc = "loop"
        /\ ~(opts.limit # 0 /\ k > opts.limit)
        /\ row_num' = k
        /\ ents' = r.E
        /\ nextId' = r.N
        /\ batch' = b
        /\ books_created' = IF r.outcome = "data" THEN books_created + 1 ELSE books_created
        /\ books_skipped' = IF r.outcome = "skip" THEN books_skipped + 1 ELSE books_skipped
        /\ books_with_errors' =
              IF r.outcome = "error" THEN books_with_errors + 1 ELSE books_with_errors
        /\ accepted' = IF r.outcome = "data" THEN accepted \cup {k} ELSE accepted
        /\ dup_seen' = IF HoldsIsbnOf(row) THEN dup_seen \cup {k} ELSE dup_seen
        /\ prior' = prior
        /\ IF r.outcome = "error"
           THEN IF books_with_errors' > MaxErrors
                THEN AfterLoop(b)
                ELSE UNCHANGED <<ipc, bi, final, report>>
           ELSE IF Len(b) >= opts.batch_size
                THEN /\ ipc' = "create"
                     /\ bi' = 1
                     /\ final' = FALSE
                     /\ report' = report
                ELSE UNCHANGED <<ipc, bi, final, report>>
        /\ UNCHANGED <<books, nextBookId, links, favorites, opts, tx, runs,
                       attempted, failed, committed, apivars, authvars, sidevars>>

\* One pass of the for loop over a record that is within the limit.
ReadRow(row) ==
    LET k == row_num + 1
        r == ProcessRow(row, opts.skip_duplicates, opts.seed, books, ents, nextId)
    IN  LoopTurn(row, k, r,
                 IF r.outcome = "data"
                 THEN Append(batch, [k |-> k, data |-> r.data, row |-> row])
                 ELSE batch)

\* The record after the limit is taken from the reader and the loop breaks.
LimitBreak ==
    /\ ipc = "loop"
    /\ opts.limit # 0
    /\ row_num + 1 > opts.limit
    /\ row_num' = row_num + 1
    /\ UNCHANGED <<dbvars, opts, books_created, books_skipped, books_with_errors,
                   batch, tx, runs, histvars, apivars, authvars, sidevars>>
    /\ AfterLoop(batch)

\* The reader is exhausted.
EndOfFile ==
    /\ ipc = "loop"
    /\ UNCHANGED <<dbvars, opts, row_num, books_created, books_skipped,
                   books_with_errors, batch, tx, runs, histvars, apivars, authvars, sidevars>>
    /\ AfterLoop(batch)

\* ----------------------------------------------------- create_books_batch
\* Book.objects.create(**book_data) without the atomic block: the row is committed
\* by the INSERT.
CreateBookAutocommit ==
    LET item == batch[bi]
        book == [id |-> nextBookId] @@ item.data
    IN  /\ ipc = "create"
        /\ attempted' = Append(attempted, item.k)
        /\ IF \E b \in books : b.isbn = item.data.isbn
           THEN /\ failed' = failed \cup {item.k}
                /\ OnCreateError
                /\ UNCHANGED <<nextBookId, tx, books>>
           ELSE /\ tx' = {[book |-> book, L |-> {}, E |-> ents, N |-> nextId]}
                /\ books' = books \cup {book}
                /\ nextBookId' = nextBookId + 1
                /\ ipc' = "attach"
                /\ UNCHANGED <<failed, batch, bi, report>>
        /\ UNCHANGED <<ents, nextId, links, favorites, opts, row_num,
                       books_created, books_skipped, books_with_errors, final,
                       runs, accepted, committed, dup_seen, prior, apivars, authvars, sidevars>>

\* Book.objects.create(**book_data) inside transaction.atomic(): the INSERT raises
\* IntegrityError on an isbn a Book row holds, and the block is rolled back.
CreateBook ==
    LET item == batch[bi]
    IN  /\ ipc = "create"
        /\ attempted' = Append(attempted, item.k)
        /\ IF \E b \in books : b.isbn = item.data.isbn
           THEN /\ failed' = failed \cup {item.k}
                /\ OnCreateError
                /\ UNCHANGED <<nextBookId, tx>>
           ELSE /\ tx' = {[book |-> [id |-> nextBookId] @@ item.data,
                           L |-> {}, E |-> ents, N |-> nextId]}
                /\ nextBookId' = nextBookId + 1
                /\ ipc' = "attach"
                /\ UNCHANGED <<failed, batch, bi, report>>
        /\ UNCHANGED <<books, ents, nextId, links, favorites, opts, row_num,
                       books_created, books_skipped, books_with_errors, final,
                       runs, accepted, committed, dup_seen, prior, apivars, authvars, sidevars>>

\* add_genres_to_book, add_characters_to_book, add_awards_to_book in the open block.
AttachM2M ==
    /\ ipc = "attach"
    /\ \E t \in tx :
          LET S == AttachRow([E |-> t.E, N |-> t.N, L |-> t.L], batch[bi].row, t.book.id)
          IN  tx' = {[book |-> t.book, L |-> S.L, E |-> S.E, N |-> S.N]}
    /\ ipc' = "commit"
    /\ UNCHANGED <<dbvars, opts, row_num, books_created, books_skipped,
                   books_with_errors, batch, bi, final, report, runs, histvars,
                   apivars, authvars, sidevars>>

\* The atomic block ends without an exception: COMMIT.
Commit ==
    /\ ipc = "commit"
    /\ \E t \in tx :
          /\ books' = books \cup {t.book}
          /\ links' = links \cup t.L
          /\ ents' = t.E
          /\ nextId' = t.N
          /\ committed' = committed \cup {t.book.id}
    /\ tx' = {}
    /\ Advance
    /\ UNCHANGED <<nextBookId, favorites, opts, row_num, books_created,
                   books_skipped, books_with_errors, final, runs, accepted,
                   attempted, failed, dup_seen, prior, apivars, authvars, sidevars>>

\* ================================================================ catalog API
\* The callers: "anon" sends no credentials; the others are authenticated users.
Users == {"u1", "u2"}
Callers == {"anon"} \cup Users

IsAuthenticated(caller) == caller \in Users

MaxBookId == 2       \* Book rows the API spec creates in one behaviour

\* ------------------------------------------------- BookSearchSerializer
\* The validated query parameters: each is {} when not sent, {v} when sent.
\* genres holds the list of ids as a set.
NoParams ==
    [search |-> {}, category |-> {}, author |-> {}, publisher |-> {},
     language |-> {}, series |-> {}, book_format |-> {}, genres |-> {},
     min_price |-> {}, max_price |-> {}, min_rating |-> {}, max_rating |-> {},
     min_publication_date |-> {}, max_publication_date |-> {},
     favorites_only |-> {}, has_cover_image |-> {}, ordering |-> {}]

ParamNames == DOMAIN NoParams

\* The last request and its response; params: the query parameters of a search or
\* filtered deletion.
NoResp == [op |-> "none", caller |-> "anon", status |-> 0, book_id |-> 0,
           is_favorited |-> FALSE, deleted_count |-> 0, result |-> {},
           params |-> NoParams]

NoStreak == [user |-> "anon", book |-> 0, n |-> 0, before |-> FALSE]

Reply(op, caller, status) == [NoResp EXCEPT !.op = op, !.caller = caller, !.status = status]

\* ------------------------------------------------------------------- text
\* The lower-cased search terms that occur in a text of the model (icontains is a
\* case-insensitive substring test).
Lower(term) ==
    CASE term = "ACE" -> "ace"
      [] OTHER -> term

Fragments(text) ==
    CASE text = "Dune" -> {"dune"}
      [] text = "Dune Chronicles" -> {"dune"}
      [] text = "A place called Arrakis" -> {"ace"}
      [] text = "Ace Books" -> {"ace"}
      [] text = "9780000000001" -> {"978"}
      [] text = "9780000000002" -> {"978"}
      [] text = "9780000000003" -> {"978"}
      [] OTHER -> {}

IContains(text, term) == Lower(term) \in Fragments(text)

\* str.isdigit() and len(value) == 13 over the ISBN texts of the model.
IsDigits13(text) == text \in {"9780000000001", "9780000000002", "9780000000003"}

ApiIsbn(text) == [auto |-> FALSE, text |-> text, seed |-> 0, title |-> "", author |-> <<>>]

\* The name column of the rows of table t with an id in ids.
NamesOf(t, ids) == {e.name : e \in {x \in ents[t] : x.id \in ids}}

\* ----------------------------------------------------------- BookViewSet
FORMAT_CHOICES == {"hardcover", "paperback", "mass_paperback", "audiobook",
                   "ebook", "board_book", "other"}

\* Request bodies of create and update: the Book columns and the genre ids.
BookA ==
    [isbn |-> ApiIsbn("9780000000001"), title |-> "Dune",
     description |-> "A place called Arrakis", author |-> {1}, category |-> {1},
     publisher |-> {1}, language |-> {1}, series |-> {1},
     book_format |-> {"hardcover"}, price |-> 1000, average_rating |-> {450},
     publication_date |-> 19650801, cover_image |-> {""},
     cover_image_url |-> {"http://covers/1"}, liked_percent |-> {90},
     genres |-> {1, 2}]

BookB ==
    [isbn |-> ApiIsbn("9780000000002"), title |-> "Emma",
     description |-> "", author |-> {2}, category |-> {},
     publisher |-> {}, language |-> {}, series |-> {},
     book_format |-> {}, price |-> 2000, average_rating |-> {},
     publication_date |-> 20000101, cover_image |-> {""},
     cover_image_url |-> {}, liked_percent |-> {},
     genres |-> {}]

BookC ==
    [isbn |-> ApiIsbn("9780000000003"), title |-> "Persuasion",
     description |-> "", author |-> {2}, category |-> {1},
     publisher |-> {1}, language |-> {}, series |-> {},
     book_format |-> {"paperback"}, price |-> 2500, average_rating |-> {0},
     publication_date |-> 20200515, cover_image |-> {""},
     cover_image_url |-> {}, liked_percent |-> {},
     genres |-> {2}]

BookBadIsbn == [BookB EXCEPT !.isbn = ApiIsbn("12345")]

BookInputs == {BookA, BookB, BookC, BookBadIsbn}

Exists(t, ids) == \A i \in ids : \E e \in ents[t] : e.id = i

\* BookCreateUpdateSerializer.is_valid for the row with id self (0 on create):
\* validate_isbn, the unique isbn, the related rows, the validators of the model.
ValidBook(data, self) ==
    /\ IsDigits13(data.isbn.text)
    /\ ~\E b \in books : b.isbn = data.isbn /\ b.id # self
    /\ Cardinality(data.author) = 1
    /\ Exists("author", data.author)
    /\ Exists("category", data.category)
    /\ Exists("publisher", data.publisher)
    /\ Exists("language", data.language)
    /\ Exists("series", data.series)
    /\ Exists("genre", data.genres)
    /\ data.book_format \subseteq FORMAT_CHOICES
    /\ data.price >= 1
    /\ \A r \in data.average_rating : 0 <= r /\ r <= 500
    /\ \A l \in data.liked_percent : 0 <= l /\ l <= 100

\* The Book row of a request body: its columns without the genre ids.
RowOf(id, data) ==
    [id |-> id, isbn |-> data.isbn, title |-> data.title,
     description |-> data.description, author |-> data.author,
     category |-> data.category, publisher |-> data.publisher,
     language |-> data.language, series |-> data.series,
     book_format |-> data.book_format, price |-> data.price,
     average_rating |-> data.average_rating,
     liked_percent |-> data.liked_percent,
     publication_date |-> data.publication_date,
     cover_image |-> data.cover_image, cover_image_url |-> data.cover_image_url]

GenreLinks(id, genres) == {<<"genre", id, g>> : g \in genres}

LinksOf(ids) == {l \in links : l[2] \in ids}

FavoritesOf(ids) == {f \in favorites : f[2] \in ids}

\* permission_classes of BookViewSet's create, update, partial_update, destroy.
BookWriteAllowed(caller) == TRUE

\* POST /books/
ApiCreateBook(caller, data) ==
    /\ nextBookId <= MaxBookId
    /\ IF ~BookWriteAllowed(caller)
       THEN /\ resp' = Reply("create", caller, 401)
            /\ UNCHANGED <<books, nextBookId, links>>
       ELSE IF ~ValidBook(data, 0)
       THEN /\ resp' = Reply("create", caller, 400)
            /\ UNCHANGED <<books, nextBookId, links>>
       ELSE /\ books' = books \cup {RowOf(nextBookId, data)}
            /\ links' = links \cup GenreLinks(nextBookId, data.genres)
            /\ nextBookId' = nextBookId + 1
            /\ resp' = [Reply("create", caller, 201) EXCEPT !.book_id = nextBookId]
    /\ streak' = NoStreak
    /\ UNCHANGED <<ents, nextId, favorites, impvars, histvars, authvars, sidevars>>

\* PUT /books/{id}/
ApiUpdateBook(caller, id, data) ==
    /\ IF ~BookWriteAllowed(caller)
       THEN /\ resp' = Reply("update", caller, 401)
            /\ UNCHANGED <<books, links>>
       ELSE IF id \notin {b.id : b \in books}
       THEN /\ resp' = Reply("update", caller, 404)
            /\ UNCHANGED <<books, links>>
       ELSE IF ~ValidBook(data, id)
       THEN /\ resp' = Reply("update", caller, 400)
            /\ UNCHANGED <<books, links>>
       ELSE /\ books' = {b \in books : b.id # id} \cup {RowOf(id, data)}
            /\ links' = {l \in links : ~(l[1] = "genre" /\ l[2] = id)}
                           \cup GenreLinks(id, data.genres)
            /\ resp' = [Reply("update", caller, 200) EXCEPT !.book_id = id]
    /\ streak' = NoStreak
    /\ UNCHANGED <<nextBookId, ents, nextId, favorites, impvars, histvars, authvars, sidevars>>

\* PATCH /books/{id}/ with a price.
ApiPartialUpdateBook(caller, id, price) ==
    /\ IF ~BookWriteAllowed(caller)
       THEN /\ resp' = Reply("partial_update", caller, 401)
            /\ UNCHANGED books
       ELSE IF id \notin {b.id : b \in books}
       THEN /\ resp' = Reply("partial_update", caller, 404)
            /\ UNCHANGED books
       ELSE IF price < 1
       THEN /\ resp' = Reply("partial_update", caller, 400)
            /\ UNCHANGED books
       ELSE /\ books' = {IF b.id = id THEN [b EXCEPT !.price = price] ELSE b : b \in books}
            /\ resp' = [Reply("partial_update", caller, 200) EXCEPT !.book_id = id]
    /\ streak' = NoStreak
    /\ UNCHANGED <<nextBookId, ents, nextId, links, favorites, impvars, histvars, authvars, sidevars>>

\* DELETE /books/{id}/: the row, with its Favorite and many-to-many rows (CASCADE).
ApiDeleteBook(caller, id) ==
    /\ IF ~BookWriteAllowed(caller)
       THEN /\ resp' = Reply("destroy", caller, 401)
            /\ UNCHANGED <<books, links, favorites>>
       ELSE IF id \notin {b.id : b \in books}
       THEN /\ resp' = Reply("destroy", caller, 404)
            /\ UNCHANGED <<books, links, favorites>>
       ELSE /\ books' = {b \in books : b.id # id}
            /\ links' = links \ LinksOf({id})
            /\ favorites' = favorites \ FavoritesOf({id})
            /\ resp' = [Reply("destroy", caller, 204) EXCEPT !.book_id = id]
    /\ streak' = NoStreak
    /\ UNCHANGED <<nextBookId, ents, nextId, impvars, histvars, authvars, sidevars>>

\* The values tried for each parameter.
ParamValues ==
    [search |-> {"dune", "ACE", "zzz"}, category |-> {0, 1},
     author |-> {2}, publisher |-> {1}, language |-> {1}, series |-> {1},
     book_format |-> {"hardcover", "bogus"}, genres |-> {{}, {1, 2}},
     min_price |-> {1000}, max_price |-> {0, 2000},
     min_rating |-> {0, 400}, max_rating |-> {450},
     min_publication_date |-> {20000101}, max_publication_date |-> {20000101},
     favorites_only |-> {TRUE}, has_cover_image |-> {TRUE},
     ordering |-> {"-price", "bogus"}]

\* The requests with at most one parameter sent, and with at most two.
SingleParams ==
    UNION {{[NoParams EXCEPT ![f] = {v}] : v \in ParamValues[f]} : f \in ParamNames}
    \cup {NoParams}

SearchParams ==
    UNION {UNION {{[p EXCEPT ![g] = {w}] : w \in ParamValues[g]} : g \in ParamNames} :
           p \in SingleParams}
    \cup {NoParams}

OrderingChoices ==
    {"title", "-title", "price", "-price", "publication_date", "-publication_date",
     "average_rating", "-average_rating", "num_ratings", "-num_ratings",
     "created_at", "-created_at"}

\* BookSearchSerializer.is_valid: the ChoiceFields reject a value outside their
\* choices and the CharField rejects a blank search; the numeric fields accept
\* every number, 0 included.
ValidSearch(p) ==
    /\ p.book_format \subseteq FORMAT_CHOICES
    /\ p.ordering \subseteq OrderingChoices
    /\ "" \notin p.search

\* --------------------------------------------------- BookViewSet.search
\* A queryset is a set of result rows <<book, tag>>: tag 0, or the genre id of the
\* joined row once the queryset is joined with the genres.
AllRows == {<<b, 0>> : b \in books}

\* queryset.filter(...) when the parameter is truthy, else the queryset as is;
\* kept: the rows the filter's predicate holds for.
FilterIf(truthy, q, kept) == IF truthy THEN q \cap kept ELSE q

\* The six-field Q object of search().
SearchTextMatch(b, term) ==
    \/ IContains(b.title, term)
    \/ \E n \in NamesOf("author", b.author) : IContains(n, term)
    \/ IContains(b.description, term)
    \/ IContains(b.isbn.text, term)
    \/ \E n \in NamesOf("series", b.series) : IContains(n, term)
    \/ \E n \in NamesOf("publisher", b.publisher) : IContains(n, term)

\* The three-field Q object of bulk_delete_filtered().
DeleteTextMatch(b, term) ==
    \/ IContains(b.title, term)
    \/ \E n \in NamesOf("author", b.author) : IContains(n, term)
    \/ IContains(b.description, term)

\* filter(genres__id__in=G): one row for each requested genre the book has.
JoinGenres(q, G) ==
    UNION {{<<r[1], g>> : g \in {x \in G : <<"genre", r[1].id, x>> \in links}} : r \in q}

DistinctKeepsJoinedRows(q) == q

\* .distinct()
Distinct(q) == {<<r[1], 0>> : r \in q}

Truthy(x) == \E v \in x : v # 0

\* The filters search() and bulk_delete_filtered() share, applied to q.
CommonFilters(q, p, caller) ==
    LET q1 == FilterIf(Truthy(p.category), q,
                       {qr \in q : LET b == qr[1] IN b.category = p.category})
        q2 == FilterIf(Truthy(p.author), q1,
                       {qr \in q1 : LET b == qr[1] IN b.author = p.author})
    IN  q2

PriceDateFavoriteFiltersAnyUser(q, p, caller) ==
    FilterIf(p.favorites_only = {TRUE} /\ IsAuthenticated(caller), q,
             {qr \in q : LET b == qr[1] IN \E u \in Users : <<u, b.id>> \in favorites})

PriceDateFavoriteFiltersExclusive(q, p, caller) ==
    LET q1 == FilterIf(Truthy(p.min_price), q,
                       {qr \in q : LET b == qr[1] IN \A v \in p.min_price : b.price > v})
        q2 == FilterIf(Truthy(p.max_price), q1,
                       {qr \in q1 : LET b == qr[1] IN \A v \in p.max_price : b.price < v})
    IN  q2

\* The price, publication date and favorites_only filters, which search() and
\* bulk_delete_filtered() apply alike.
PriceDateFavoriteFilters(q, p, caller) ==
    LET q1 == FilterIf(Truthy(p.min_price), q,
                       {qr \in q : LET b == qr[1] IN \A v \in p.min_price : b.price >= v})
        q2 == FilterIf(Truthy(p.max_price), q1,
                       {qr \in q1 : LET b == qr[1] IN \A v \in p.max_price : b.price <= v})
        q3 == FilterIf(p.min_publication_date # {}, q2,
                       {qr \in q2 : LET b == qr[1] IN \A v \in p.min_publication_date : b.publication_date >= v})
        q4 == FilterIf(p.max_publication_date # {}, q3,
                       {qr \in q3 : LET b == qr[1] IN \A v \in p.max_publication_date : b.publication_date <= v})
    IN  FilterIf(p.favorites_only = {TRUE} /\ IsAuthenticated(caller), q4,
                       {qr \in q4 : LET b == qr[1] IN <<caller, b.id>> \in favorites})

\* The queryset search() builds from the validated data, before ordering.
SearchQueryset(p, caller) ==
    LET q0 == FilterIf(p.search # {}, AllRows,
                       {qr \in AllRows : LET b == qr[1] IN \A t \in p.search : SearchTextMatch(b, t)})
        q1 == CommonFilters(q0, p, caller)
        q2 == FilterIf(Truthy(p.publisher), q1,
                       {qr \in q1 : LET b == qr[1] IN b.publisher = p.publisher})
        q3 == FilterIf(Truthy(p.language), q2,
                       {qr \in q2 : LET b == qr[1] IN b.language = p.language})
        q4 == FilterIf(Truthy(p.series), q3,
                       {qr \in q3 : LET b == qr[1] IN b.series = p.series})
        q5 == FilterIf(p.book_format # {}, q4,
                       {qr \in q4 : LET b == qr[1] IN b.book_format = p.book_format})
        q6 == IF \E G \in p.genres : G # {}
              THEN Distinct(JoinGenres(q5, UNION p.genres))
              ELSE q5
        q7 == FilterIf(Truthy(p.min_rating), q6,
                       {qr \in q6 : LET b == qr[1] IN \E r \in b.average_rating : \A v \in p.min_rating : r >= v})
        q8 == FilterIf(Truthy(p.max_rating), q7,
                       {qr \in q7 : LET b == qr[1] IN \E r \in b.average_rating : \A v \in p.max_rating : r <= v})
        q9 == FilterIf(p.has_cover_image = {TRUE}, q8,
                       {qr \in q8 : LET b == qr[1] IN b.cover_image # {} \/ b.cover_image_url # {}})
    IN  PriceDateFavoriteFilters(q9, p, caller)

\* GET /books/search/: every row of the queryset (all its pages), as <<id, tag>>;
\* the order of the rows is not modelled.
Search(caller, p) ==
    /\ IF ~ValidSearch(p)
       THEN resp' = [Reply("search", caller, 400) EXCEPT !.params = p]
       ELSE resp' = [Reply("search", caller, 200) EXCEPT
                       !.params = p,
                       !.result = {<<r[1].id, r[2]>> : r \in SearchQueryset(p, caller)}]
    /\ streak' = NoStreak
    /\ UNCHANGED <<dbvars, impvars, histvars, authvars, sidevars>>

\* ------------------------------------------------------- bulk deletions
\* QuerySet.delete() of the Book rows with ids: its first return value counts every
\* row deleted, the cascaded Favorite and many-to-many rows included.
DeletedCount(ids) ==
    Cardinality({b \in books : b.id \in ids})
        + Cardinality(LinksOf(ids)) + Cardinality(FavoritesOf(ids))

DeleteBooks(ids) ==
    /\ books' = {b \in books : b.id \notin ids}
    /\ links' = links \ LinksOf(ids)
    /\ favorites' = favorites \ FavoritesOf(ids)

\* POST /books/bulk_delete/ (permission_classes=[IsAuthenticated])
BulkDelete(caller, book_ids) ==
    /\ IF ~IsAuthenticated(caller)
       THEN /\ resp' = Reply("bulk_delete", caller, 401)
            /\ UNCHANGED <<books, links, favorites>>
       ELSE IF book_ids = {}
       THEN /\ resp' = Reply("bulk_delete", caller, 400)
            /\ UNCHANGED <<books, links, favorites>>
       ELSE /\ DeleteBooks(book_ids)
            /\ resp' = [Reply("bulk_delete", caller, 200) EXCEPT
                          !.deleted_count = DeletedCount(book_ids)]
    /\ streak' = NoStreak
    /\ UNCHANGED <<nextBookId, ents, nextId, impvars, histvars, authvars, sidevars>>

\* The queryset bulk_delete_filtered() builds from the validated data.
DeleteFilteredQueryset(p, caller) ==
    LET q0 == FilterIf(p.search # {}, AllRows,
                       {qr \in AllRows : LET b == qr[1] IN \A t \in p.search : DeleteTextMatch(b, t)})
    IN  PriceDateFavoriteFilters(CommonFilters(q0, p, caller), p, caller)

\* POST /books/bulk_delete_filtered/ (permission_classes=[IsAuthenticated])
BulkDeleteFiltered(caller, p) ==
    /\ IF ~IsAuthenticated(caller)
       THEN /\ resp' = Reply("bulk_delete_filtered", caller, 401)
            /\ UNCHANGED <<books, links, favorites>>
       ELSE IF ~ValidSearch(p)
       THEN /\ resp' = Reply("bulk_delete_filtered", caller, 400)
            /\ UNCHANGED <<books, links, favorites>>
       ELSE LET ids == {r[1].id : r \in DeleteFilteredQueryset(p, caller)}
            IN  /\ DeleteBooks(ids)
                /\ resp' = [Reply("bulk_delete_filtered", caller, 200) EXCEPT
                              !.params = p,
                              !.deleted_count = DeletedCount(ids)]
    /\ streak' = NoStreak
    /\ UNCHANGED <<nextBookId, ents, nextId, impvars, histvars, authvars, sidevars>>

\* ------------------------------------------- lookup tables' destroy
\* The tables a Book row refers to by foreign key.
ForeignKeyTypes == {"author", "category", "publisher", "language", "series"}

BooksAfterEntityDeleteSetNull(type, id) ==
    {IF b[type] = {id} THEN [b EXCEPT ![type] = {}] ELSE b : b \in books}

\* The Book rows after the row id of a table is deleted: on_delete=CASCADE for
\* author, SET_NULL for the others.
BooksAfterEntityDelete(type, id) ==
    IF type = "author"
    THEN {b \in books : b.author # {id}}
    ELSE {IF b[type] = {id} THEN [b EXCEPT ![type] = {}] ELSE b : b \in books}

\* DELETE /authors/{id}/, /categories/{id}/, /publishers/{id}/, /languages/{id}/,
\* /series/{id}/ (ModelViewSet.destroy, permission_classes = [AllowAny]).
ApiDeleteEntity(caller, type, id) ==
    /\ IF ~\E e \in ents[type] : e.id = id
       THEN /\ resp' = Reply("destroy_entity", caller, 404)
            /\ UNCHANGED <<books, ents, links, favorites>>
       ELSE LET kept == BooksAfterEntityDelete(type, id)
                gone == {b.id : b \in books} \ {b.id : b \in kept}
            IN  /\ ents' = [ents EXCEPT ![type] = {e \in @ : e.id # id}]
                /\ books' = kept
                /\ links' = links \ LinksOf(gone)
                /\ favorites' = favorites \ FavoritesOf(gone)
                /\ resp' = Reply("destroy_entity", caller, 204)
    /\ streak' = NoStreak
    /\ UNCHANGED <<nextBookId, nextId, impvars, histvars, authvars, sidevars>>

\* ------------------------------------------------- FavoriteViewSet.toggle
\* What toggle does with the Favorite of (caller, book), found or just created by
\* get_or_create: the Favorite rows after the call.
ToggledKeepsExisting(caller, book_id) == favorites \cup {<<caller, book_id>>}

Toggled(caller, book_id) ==
    IF <<caller, book_id>> \in favorites
    THEN favorites \ {<<caller, book_id>>}
    ELSE favorites \cup {<<caller, book_id>>}

ToggleFavoriteNoLookup(caller, book_id) ==
    /\ favorites' = Toggled(caller, book_id)
    /\ resp' = [Reply("toggle", caller, 200) EXCEPT !.book_id = book_id]
    /\ streak' = NoStreak
    /\ UNCHANGED <<books, nextBookId, ents, nextId, links, impvars, histvars, authvars, sidevars>>

\* POST /favorites/toggle/ with book_id (0: no book_id in the body)
ToggleFavorite(caller, book_id) ==
    /\ IF ~IsAuthenticated(caller)
       THEN /\ resp' = Reply("toggle", caller, 401)
            /\ UNCHANGED favorites
            /\ streak' = NoStreak
       ELSE IF book_id = 0
       THEN /\ resp' = Reply("toggle", caller, 400)
            /\ UNCHANGED favorites
            /\ streak' = NoStreak
       ELSE IF book_id \notin {b.id : b \in books}
       THEN /\ resp' = Reply("toggle", caller, 404)
            /\ UNCHANGED favorites
            /\ streak' = NoStreak
       ELSE /\ favorites' = Toggled(caller, book_id)
            /\ resp' = [Reply("toggle", caller, 200) EXCEPT
                          !.book_id = book_id,
                          !.is_favorited = (<<caller, book_id>> \notin favorites)]
            /\ streak' = IF streak.n = 1 /\ streak.user = caller /\ streak.book = book_id
                         THEN [streak EXCEPT !.n = 2]
                         ELSE [user |-> caller, book |-> book_id, n |-> 1,
                               before |-> (<<caller, book_id>> \in favorites)]
    /\ UNCHANGED <<books, nextBookId, ents, nextId, links, impvars, histvars, authvars, sidevars>>

\* ------------------------------------------------------------ LogoutView
MaxTokens == 2        \* refresh tokens issued in one behaviour
MaxTime == 3          \* clock ticks in one behaviour
RefreshLifetime == 2  \* ticks a refresh token stays unexpired

\* What a logout request carries under "refresh": nothing, a string that is
\* no token, or a token the provider issued.
NoBody == [kind |-> "missing", jti |-> 0]
Garbage == [kind |-> "garbage", jti |-> 0]
Presented(t) == [kind |-> "jwt", jti |-> t.jti]
LogoutBodies == {NoBody, Garbage} \cup {Presented(t) : t \in outstanding}

NoLogout == [caller |-> "anon", status |-> 0, jti |-> 0, was |-> "none"]

InitAuth ==
    /\ outstanding = {}
    /\ blacklist = {}
    /\ now = 0
    /\ logout = NoLogout

\* request.data["refresh"] and RefreshToken(refresh_token): the state of the
\* presented token. Decoding checks the signature and the expiry, verify()
\* then checks the blacklist.
TokenState(body) ==
    IF body.kind = "missing" THEN "missing"
    ELSE IF body.kind = "garbage" THEN "unparseable"
    ELSE LET t == CHOOSE x \in outstanding : x.jti = body.jti
         IN  IF t.exp <= now THEN "expired"
             ELSE IF t.jti \in blacklist THEN "blacklisted"
             ELSE "valid"

\* TokenObtainPairView.post with valid credentials: a new refresh token.
Login(user) ==
    /\ Cardinality(outstanding) < MaxTokens
    /\ outstanding' = outstanding \cup
           {[jti |-> Cardinality(outstanding) + 1, user |-> user,
             exp |-> now + RefreshLifetime]}
    /\ UNCHANGED <<blacklist, now, logout, dbvars, impvars, histvars, apivars, sidevars>>

\* Time passes.
Tick ==
    /\ now < MaxTime
    /\ now' = now + 1
    /\ UNCHANGED <<outstanding, blacklist, logout, dbvars, impvars, histvars, apivars, sidevars>>

\* LogoutView.post: IsAuthenticated, then every exception of the try block
\* (KeyError, TokenError) is answered with 400, and a blacklisted token with 205.
Logout(caller, body) ==
    LET was == TokenState(body)
    IN  /\ body \in LogoutBodies
        /\ IF ~IsAuthenticated(caller)
           THEN /\ logout' = [caller |-> caller, status |-> 401, jti |-> body.jti, was |-> was]
                /\ UNCHANGED blacklist
           ELSE IF was # "valid"
           THEN /\ logout' = [caller |-> caller, status |-> 400, jti |-> body.jti, was |-> was]
                /\ UNCHANGED blacklist
           ELSE /\ logout' = [caller |-> caller, status |-> 205, jti |-> body.jti, was |-> was]
                /\ blacklist' = blacklist \cup {body.jti}
        /\ UNCHANGED <<outstanding, now, dbvars, impvars, histvars, apivars, sidevars>>

NextLogout ==
    \/ \E u \in Users : Login(u)
    \/ Tick
    \/ \E c \in Callers, body \in LogoutBodies : Logout(c, body)

\* ---------------------------------------- concurrent favorite requests
\* FavoriteViewSet.toggle and FavoriteSerializer.create taken one database
\* statement at a time, so that the statements of several requests interleave.
\* favRows is the Favorite table with its primary keys; favorites is kept as
\* its (user, book) pairs.
MaxProcs == 3        \* favorite requests received in one behaviour

FavPairs(rows) == {<<r.user, r.book>> : r \in rows}

FavMatches(user, book) == {r \in favRows : r.user = user /\ r.book = book}

Answer(i, status) == [procs EXCEPT ![i].pc = "done", ![i].status = status]

Goto(i, pc) == [procs EXCEPT ![i].pc = pc]

\* The request arrives: an authenticated user, a book_id in the body.
StartRequest(kind, user, book) ==
    /\ Len(procs) < MaxProcs
    /\ procs' = Append(procs, [kind |-> kind, user |-> user, book |-> book,
                               pc |-> "lookup", held |-> {}, created |-> FALSE,
                               status |-> 0])
    /\ UNCHANGED <<favRows, nextFavId, dbvars, impvars, histvars, apivars,
                   authvars, webvars, cleanvars>>

\* Book.objects.get(id=book_id): 404 from toggle, a ValidationError (400)
\* from the serializer.
LookupBook(i) ==
    /\ procs[i].pc = "lookup"
    /\ procs' = IF procs[i].book \notin {b.id : b \in books}
                THEN Answer(i, IF procs[i].kind = "toggle" THEN 404 ELSE 400)
                ELSE Goto(i, IF procs[i].kind = "toggle" THEN "get" ELSE "exists")
    /\ UNCHANGED <<favRows, nextFavId, dbvars, impvars, histvars, apivars,
                   authvars, webvars, cleanvars>>

\* get_or_create's first self.get(user=..., book=...).
SelectFavorite(i) ==
    LET found == FavMatches(procs[i].user, procs[i].book)
    IN  /\ procs[i].pc = "get"
        /\ procs' = IF found = {} THEN Goto(i, "insert")
                    ELSE IF Cardinality(found) > 1 THEN Answer(i, 500)
                    ELSE [procs EXCEPT ![i].pc = "delete",
                                       ![i].held = {r.id : r \in found}]
        /\ UNCHANGED <<favRows, nextFavId, dbvars, impvars, histvars, apivars,
                       authvars, webvars, cleanvars>>

\* Favorite.objects.filter(user=user, book=book).exists() of the serializer.
CheckExists(i) ==
    /\ procs[i].pc = "exists"
    /\ procs' = IF FavMatches(procs[i].user, procs[i].book) # {}
                THEN Answer(i, 400)
                ELSE Goto(i, "insert")
    /\ UNCHANGED <<favRows, nextFavId, dbvars, impvars, histvars, apivars,
                   authvars, webvars, cleanvars>>

\* The INSERT on a table without unique_together.
InsertFavoriteNoUnique(i) ==
    /\ procs[i].pc = "insert"
    /\ favRows' = favRows \cup {[id |-> nextFavId, user |-> procs[i].user,
                                 book |-> procs[i].book]}
    /\ nextFavId' = nextFavId + 1
    /\ favorites' = FavPairs(favRows')
    /\ procs' = IF procs[i].kind = "toggle"
                THEN [Answer(i, 200) EXCEPT ![i].created = TRUE]
                ELSE [Answer(i, 201) EXCEPT ![i].created = TRUE]
    /\ UNCHANGED <<books, nextBookId, ents, nextId, links, impvars, histvars,
                   apivars, authvars, webvars, cleanvars>>

\* The INSERT of Favorite.objects.create: unique_together raises
\* IntegrityError when the pair is stored. get_or_create catches it and reads
\* again; the serializer lets it escape (500).
InsertFavorite(i) ==
    /\ procs[i].pc = "insert"
    /\ IF FavMatches(procs[i].user, procs[i].book) # {}
       THEN /\ procs' = IF procs[i].kind = "toggle" THEN Goto(i, "reget")
                        ELSE Answer(i, 500)
            /\ UNCHANGED <<favRows, nextFavId, favorites>>
       ELSE /\ favRows' = favRows \cup {[id |-> nextFavId, user |-> procs[i].user,
                                         book |-> procs[i].book]}
            /\ nextFavId' = nextFavId + 1
            /\ favorites' = FavPairs(favRows')
            /\ procs' = IF procs[i].kind = "toggle"
                        THEN [Answer(i, 200) EXCEPT ![i].created = TRUE]
                        ELSE [Answer(i, 201) EXCEPT ![i].created = TRUE]
    /\ UNCHANGED <<books, nextBookId, ents, nextId, links, impvars, histvars,
                   apivars, authvars, webvars, cleanvars>>

\* get_or_create after IntegrityError: self.get again, and the error is
\* raised again when the row is gone by now.
RegetFavorite(i) ==
    LET found == FavMatches(procs[i].user, procs[i].book)
    IN  /\ procs[i].pc = "reget"
        /\ procs' = IF Cardinality(found) # 1 THEN Answer(i, 500)
                    ELSE [procs EXCEPT ![i].pc = "delete",
                                       ![i].held = {r.id : r \in found}]
        /\ UNCHANGED <<favRows, nextFavId, dbvars, impvars, histvars, apivars,
                       authvars, webvars, cleanvars>>

\* favorite.delete() of toggle: DELETE by primary key, no error when the row
\* is gone.
DeleteFavorite(i) ==
    /\ procs[i].pc = "delete"
    /\ favRows' = {r \in favRows : r.id \notin procs[i].held}
    /\ favorites' = FavPairs(favRows')
    /\ procs' = Answer(i, 200)
    /\ UNCHANGED <<nextFavId, books, nextBookId, ents, nextId, links, impvars,
                   histvars, apivars, authvars, webvars, cleanvars>>

FavoriteKinds == {"toggle", "create"}
RacedBooks == {1, 2}

NextConcurrent ==
    \/ books = {} /\ ApiCreateBook("u1", BookA)
    \/ \E k \in FavoriteKinds, b \in RacedBooks : StartRequest(k, "u1", b)
    \/ \E i \in DOMAIN procs : LookupBook(i)
    \/ \E i \in DOMAIN procs : SelectFavorite(i)
    \/ \E i \in DOMAIN procs : CheckExists(i)
    \/ \E i \in DOMAIN procs : InsertFavorite(i)
    \/ \E i \in DOMAIN procs : RegetFavorite(i)
    \/ \E i \in DOMAIN procs : DeleteFavorite(i)

\* ------------------------------------------- JWTAuthenticationMiddleware
\* A path is the sequence of its segments, every path ending with "/":
\* <<>> is "/", <<"books", "5">> is "/books/5/".
AccessLifetime == 2  \* ticks an access token stays unexpired

WebPaths == {<<>>, <<"login">>, <<"register">>, <<"api", "books">>,
             <<"dashboard">>, <<"books">>, <<"books", "5">>, <<"favorites">>,
             <<"about">>}

\* The access_token cookie: absent, a string that is no token, or a token
\* signed by the provider at time 0. user_id "" is a payload without the
\* user_id claim, "gone" the id of a user that was deleted since.
NoCookie == [kind |-> "missing", user_id |-> "", exp |-> 0]
GarbageCookie == [kind |-> "garbage", user_id |-> "", exp |-> 0]
TokenUserIds == {""} \cup Users \cup {"gone"}
AccessTokenOf(u) == [kind |-> "jwt", user_id |-> u, exp |-> AccessLifetime]
Cookies == {NoCookie, GarbageCookie} \cup {AccessTokenOf(u) : u \in TokenUserIds}

NoRequest == [path |-> <<>>, cookie |-> NoCookie, was |-> "none", action |-> "none",
              user |-> {}, seen |-> {}]

\* request.path.startswith("/" + segment + "/")
StartsWith(path, segment) == Len(path) >= 1 /\ path[1] = segment

ProtectedPath(path) ==
    \E s \in {"dashboard", "books", "favorites"} : StartsWith(path, s)

\* AccessToken(access_token): TokenError for a string that does not decode
\* or whose exp has passed.
AccessTokenState(cookie) ==
    IF cookie.kind = "missing" THEN "missing"
    ELSE IF cookie.kind = "garbage" THEN "unparseable"
    ELSE IF cookie.exp <= now THEN "expired"
    ELSE "valid"

AccessTokenValid(cookie) == AccessTokenState(cookie) = "valid"

\* get_user_from_jwt: the user of the cookie, {} for None.
GetUserFromJwt(cookie) ==
    IF cookie.kind = "missing" THEN {}
    ELSE IF ~AccessTokenValid(cookie) THEN {}
    ELSE IF cookie.user_id = "" THEN {}
    ELSE IF cookie.user_id \in Users THEN {cookie.user_id}
    ELSE {}

\* process_request: what it returns ("continue" for None, "redirect" for the
\* HttpResponseRedirect to the login page) and the user it put in request.user.
Processed(path, cookie) ==
    IF StartsWith(path, "api") THEN [action |-> "continue", user |-> {}]
    ELSE IF path \in {<<"login">>, <<"register">>, <<>>}
    THEN [action |-> "continue", user |-> {}]
    ELSE IF ~ProtectedPath(path) THEN [action |-> "continue", user |-> {}]
    ELSE IF cookie.kind = "missing" THEN [action |-> "redirect", user |-> {}]
    ELSE IF ~AccessTokenValid(cookie) THEN [action |-> "redirect", user |-> {}]
    ELSE IF cookie.user_id # ""
    THEN IF cookie.user_id \in Users
         THEN [action |-> "continue", user |-> {cookie.user_id}]
         ELSE [action |-> "redirect", user |-> {}]
    ELSE [action |-> "continue", user |-> {}]

\* A request through the middleware and, when it continues, the view, which
\* asks get_user_from_jwt for the user.
ProcessRequest(path, cookie) ==
    /\ mw' = [path |-> path, cookie |-> cookie, was |-> AccessTokenState(cookie),
              action |-> Processed(path, cookie).action,
              user |-> Processed(path, cookie).user,
              seen |-> IF Processed(path, cookie).action = "continue"
                       THEN GetUserFromJwt(cookie) ELSE {}]
    /\ UNCHANGED <<dbvars, impvars, histvars, apivars, authvars, concvars, cleanvars>>

NextWeb ==
    \/ Tick
    \/ \E p \in WebPaths, c \in Cookies : ProcessRequest(p, c)

\* ---------------------------------------------------------- clean_genres
\* A genre name is spelled as the sequence of its pieces: a word (a run of
\* characters that are no quote, colon or blank) or one of ' " : and blank.
MaxGenreId == 5      \* Genre rows in one behaviour, the two of ApiEntities included
MaxCleanRuns == 2    \* clean_genres runs in one behaviour
NAME_LIMIT == 50     \* clean_genres.py:104  cleaned[:50]

Spell(name) ==
    CASE name = "" -> <<>>
      [] name = "Fiction" -> <<"Fiction">>
      [] name = "Classics" -> <<"Classics">>
      [] name = "Poetry" -> <<"Poetry">>
      [] name = "Poetry:" -> <<"Poetry", ":">>
      [] name = "Poetry::" -> <<"Poetry", ":", ":">>
      [] name = "'Fiction'" -> <<"'", "Fiction", "'">>
      [] name = "\"Classics\"" -> <<"\"", "Classics", "\"">>
      [] name = "' Poetry'" -> <<"'", " ", "Poetry", "'">>
      [] name = "''" -> <<"'", "'">>

GenreNames == {"", "Fiction", "Classics", "Poetry", "Poetry:", "Poetry::",
               "'Fiction'", "\"Classics\"", "' Poetry'", "''"}

Join(pieces) == CHOOSE name \in GenreNames : Spell(name) = pieces

Blanks == {" "}
QuotesAndBlanks == {"'", "\"", " "}

RECURSIVE LStrip(_, _)
LStrip(s, chars) ==
    IF s # <<>> /\ s[1] \in chars THEN LStrip(Tail(s), chars) ELSE s

RECURSIVE RStrip(_, _)
RStrip(s, chars) ==
    IF s # <<>> /\ s[Len(s)] \in chars THEN RStrip(SubSeq(s, 1, Len(s) - 1), chars) ELSE s

\* str.strip(chars)
Strip(s, chars) == RStrip(LStrip(s, chars), chars)

Wrapped(s, q) == s # <<>> /\ s[1] = q /\ s[Len(s)] = q

\* cleaned[1:-1]
Inner(s) == SubSeq(s, 2, Len(s) - 1)

Unquoted(s) ==
    IF Wrapped(s, "'") THEN Inner(s)
    ELSE IF Wrapped(s, "\"") THEN Inner(s)
    ELSE s

Uncolon(s) ==
    IF s # <<>> /\ s[Len(s)] = ":" THEN Strip(SubSeq(s, 1, Len(s) - 1), Blanks) ELSE s

Truncated(s) == SubSeq(s, 1, IF Len(s) < NAME_LIMIT THEN Len(s) ELSE NAME_LIMIT)

clean_genre_name(name) ==
    IF name = "" THEN ""
    ELSE Join(Truncated(Strip(Uncolon(Strip(Unquoted(Strip(Spell(name), Blanks)),
                                            QuotesAndBlanks)),
                              Blanks)))

\* POST /genres/ (ModelViewSet.create, AllowAny): the name is unique.
ApiCreateGenre(name) ==
    /\ nextId["genre"] <= MaxGenreId
    /\ IF \E e \in ents["genre"] : e.name = name
       THEN /\ resp' = Reply("create_genre", "anon", 400)
            /\ UNCHANGED <<ents, nextId>>
       ELSE /\ ents' = [ents EXCEPT !["genre"] =
                           @ \cup {[id |-> nextId["genre"], key |-> name, name |-> name]}]
            /\ nextId' = [nextId EXCEPT !["genre"] = @ + 1]
            /\ resp' = Reply("create_genre", "anon", 201)
    /\ streak' = NoStreak
    /\ UNCHANGED <<books, nextBookId, links, favorites, impvars, histvars, authvars,
                   sidevars>>

\* The orders a set of ids can be listed in.
Orders(ids) ==
    {s \in [1..Cardinality(ids) -> ids] : \A i, j \in 1..Cardinality(ids) :
                                              i # j => s[i] # s[j]}

\* One turn of the second loop of handle for the genre with id g, whose name
\* cleaned to c when the list was built, on Genre rows G and genre links L.
CleanTurn(g, c, existing, G, L, counts) ==
    IF c = "" THEN [G |-> G, L |-> L, counts |-> counts]
    ELSE IF existing # {} /\ existing # {g}
    THEN [G |-> {e \in G : e.id # g},
          L |-> {l \in L : ~(l[1] = "genre" /\ l[3] = g)} \cup
                {<<"genre", l[2], x>> : l \in {k \in L : k[1] = "genre" /\ k[3] = g},
                                        x \in existing},
          counts |-> [counts EXCEPT !.merged = @ + 1]]
    ELSE [G |-> {IF e.id = g THEN [e EXCEPT !.name = c, !.key = c] ELSE e : e \in G},
          L |-> L,
          counts |-> [counts EXCEPT !.renamed = @ + 1]]

\* Genre.objects.filter(name=cleaned).first()
FirstNamed(G, c) ==
    IF \E e \in G : e.name = c
    THEN {(CHOOSE e \in G : e.name = c).id}
    ELSE {}

RECURSIVE CleanLoop(_, _, _, _, _, _)
CleanLoop(order, cleaned, i, G, L, counts) ==
    IF i > Len(order) THEN [G |-> G, L |-> L, counts |-> counts]
    ELSE LET r == CleanTurn(order[i], cleaned[order[i]],
                            FirstNamed(G, cleaned[order[i]]), G, L, counts)
         IN  CleanLoop(order, cleaned, i + 1, r.G, r.L, r.counts)

NoCleanup == [n |-> 0, dry_run |-> FALSE, found |-> 0, renamed |-> 0, merged |-> 0]

\* handle from the listing on: genres_to_clean holds the genres of order.
Cleaned(dry_run, order, r) ==
    /\ ents' = IF dry_run THEN ents ELSE [ents EXCEPT !["genre"] = r.G]
    /\ links' = IF dry_run THEN links ELSE r.L
    /\ cleanup' = [n |-> cleanup.n + 1, dry_run |-> dry_run, found |-> Len(order),
                   renamed |-> IF dry_run THEN 0 ELSE r.counts.renamed,
                   merged |-> IF dry_run THEN 0 ELSE r.counts.merged]

\* manage.py clean_genres [--dry-run]. Genre has no Meta.ordering, so the
\* rows of Genre.objects.all() come in an order the database picks.
CleanGenres(dry_run) ==
    LET cleaned == [g \in {e.id : e \in ents["genre"]} |->
                       clean_genre_name((CHOOSE e \in ents["genre"] : e.id = g).name)]
        to_clean == {e.id : e \in {x \in ents["genre"] : x.name # cleaned[x.id]}}
    IN  /\ cleanup.n < MaxCleanRuns
        /\ \E order \in Orders(to_clean) :
              Cleaned(dry_run, order,
                      CleanLoop(order, cleaned, 1, ents["genre"], links,
                                [renamed |-> 0, merged |-> 0]))
        /\ UNCHANGED <<books, nextBookId, nextId, favorites, impvars, histvars,
                       apivars, authvars, concvars, webvars>>

BookOfGenres(data, genres) == [data EXCEPT !.genres = genres]

GenreInputs == GenreNames \ {"", "Fiction", "Classics"}

NextGenres ==
    \/ \E name \in GenreInputs : ApiCreateGenre(name)
    \/ \E g \in SUBSET (3..MaxGenreId) :
          /\ Cardinality(g) = 1
          /\ ApiCreateBook("u1", BookOfGenres(BookA, {1} \cup g))
    \/ \E dry_run \in BOOLEAN : CleanGenres(dry_run)

\* ---------------------------------------------------------------- the side state
InitSide ==
    /\ procs = <<>>
    /\ favRows = {}
    /\ nextFavId = 1
    /\ mw = NoRequest
    /\ cleanup = NoCleanup

\* ------------------------------------------------------- clear_books_data
\* The keys of the rows of table t with the ids.
KeysOf(t, ids) == {e.key : e \in {x \in ents[t] : x.id \in ids}}

\* The datastore without its ids: each Book with the keys of the rows it refers
\* to, the keys of every entity table, the many-to-many rows by isbn and key.
Contents ==
    [books |-> {[isbn |-> b.isbn, title |-> b.title, price |-> b.price,
                 author |-> KeysOf("author", b.author),
                 category |-> KeysOf("category", b.category),
                 publisher |-> KeysOf("publisher", b.publisher),
                 language |-> KeysOf("language", b.language),
                 series |-> KeysOf("series", b.series)] : b \in books},
     ents |-> [t \in EntityTypes |-> {e.key : e \in ents[t]}],
     links |-> {<<l[1], {b.isbn : b \in {x \in books : x.id = l[2]}}, KeysOf(l[1], {l[3]})>> :
                  l \in links}]

\* manage.py clear_books_data --confirm, run while no import is running: one
\* transaction deletes every Favorite, Book and entity row.  prior keeps what the
\* import run that ended before it had left.
ClearBooksData ==
    /\ ipc \in {"idle", "done", "failed"}
    /\ books' = {}
    /\ links' = {}
    /\ favorites' = {}
    /\ ents' = [t \in EntityTypes |-> {}]
    /\ prior' = IF ipc = "done"
                THEN {[opts |-> opts, report |-> report, contents |-> Contents]}
                ELSE prior
    /\ UNCHANGED <<nextBookId, nextId, impvars, accepted, attempted, failed,
                   committed, dup_seen, apivars, authvars, sidevars>>

\* ------------------------------------------------------------ import runs
\* The options tried: --batch-size, --limit (0: none given) and the seed of the
\* process's string hash (PYTHONHASHSEED).
BatchSizes == {1, 2}
Limits == {0, 2}
Seeds == {0, 1}

\* The headers tried: the required columns all there, and the isbn column missing.
Headers == {RequiredFields, RequiredFields \ {"isbn"}}

Init ==
    /\ books = {}
    /\ nextBookId = 1
    /\ ents = [t \in EntityTypes |-> {}]
    /\ nextId = [t \in EntityTypes |-> 1]
    /\ links = {}
    /\ favorites = {}
    /\ ipc = "idle"
    /\ opts = [fieldnames |-> RequiredFields, batch_size |-> 1, limit |-> 0,
               skip_duplicates |-> FALSE, seed |-> 0]
    /\ row_num = 0
    /\ books_created = 0
    /\ books_skipped = 0
    /\ books_with_errors = 0
    /\ batch = <<>>
    /\ bi = 1
    /\ final = FALSE
    /\ tx = {}
    /\ report = {}
    /\ runs = 0
    /\ accepted = {}
    /\ attempted = <<>>
    /\ failed = {}
    /\ committed = {}
    /\ dup_seen = {}
    /\ prior = {}
    /\ resp = NoResp
    /\ streak = NoStreak
    /\ InitAuth
    /\ InitSide

Next ==
    \/ /\ runs < MaxRuns
       /\ \E h \in Headers, bs \in BatchSizes, lim \in Limits, skip \in BOOLEAN,
             seed \in Seeds :
             StartImport(h, bs, lim, skip, seed)
    \/ /\ row_num < MaxRows
       /\ \E row \in Rows : ReadRow(row)
    \/ LimitBreak
    \/ EndOfFile
    \/ CreateBook
    \/ AttachM2M
    \/ Commit

Spec == Init /\ [][Next]_vars

\* Two runs over the same CSV, each from an empty datastore, with the options of
\* each chosen freely: the records are read in the order of the file and the
\* reader is exhausted after the last one.
BatchCsv == <<RowFull, RowSameIsbn, RowNoIsbn>>

BatchSizesTried == {1, 2, 3}

NextBatch ==
    \/ /\ runs = 0
       /\ \E bs \in BatchSizesTried, lim \in Limits, skip \in BOOLEAN :
             StartImport(RequiredFields, bs, lim, skip, 0)
    \/ /\ runs = 1
       /\ books = {}
       /\ prior # {}
       /\ \E bs \in BatchSizesTried, lim \in Limits, skip \in BOOLEAN :
             StartImport(RequiredFields, bs, lim, skip, 0)
    \/ /\ row_num < Len(BatchCsv)
       /\ ReadRow(BatchCsv[row_num + 1])
    \/ LimitBreak
    \/ /\ row_num = Len(BatchCsv)
       /\ EndOfFile
    \/ CreateBook
    \/ AttachM2M
    \/ Commit
    \/ /\ runs = 1
       /\ ipc = "done"
       /\ prior = {}
       /\ ClearBooksData

SpecBatch == Init /\ [][NextBatch]_vars

\* A run over a long CSV whose records all carry the same title, author and isbn:
\* the input on which more than MaxErrors creations fail.
MaxLongRows == 103

LongRows == {RowFull}

NextLong ==
    \/ /\ runs < 1
       /\ StartImport(RequiredFields, 1, 0, FALSE, 0)
    \/ /\ row_num < MaxLongRows
       /\ \E row \in LongRows : ReadRow(row)
    \/ EndOfFile
    \/ CreateBook
    \/ AttachM2M
    \/ Commit

SpecLong == Init /\ [][NextLong]_vars

\* A run over a CSV whose records past the second all lack the description
\* column (process_row raises for each): the input on which the loop can end by
\* crossing the error threshold with accepted records pending, as well as at the
\* end of the file or at the limit.
ThresholdHead == 2

ThresholdRows(k) ==
    IF k <= ThresholdHead THEN {RowFull, RowNoIsbn, RowShortTail} ELSE {RowShortTail}

NextThreshold ==
    \/ /\ runs < 1
       /\ \E bs \in BatchSizesTried, lim \in Limits : StartImport(RequiredFields, bs, lim, FALSE, 0)
    \/ /\ row_num < MaxLongRows
       /\ \E row \in ThresholdRows(row_num + 1) : ReadRow(row)
    \/ LimitBreak
    \/ EndOfFile
    \/ CreateBook
    \/ AttachM2M
    \/ Commit

SpecThreshold == Init /\ [][NextThreshold]_vars

\* ------------------------------------------------------------------ claims
BookIds == {b.id : b \in books}

Range(s) == {s[i] : i \in 1..Len(s)}

\* C1: when the creation of one record's Book fails, every other accepted record of
\* the batch and of the run is still attempted (each once), and every Book created
\* by the run stays committed: at the end the committed Books are exactly those of
\* the accepted records whose creation did not fail.
C1_FailureIsolated ==
    /\ committed \subseteq BookIds
    /\ ipc = "done" =>
          /\ Range(attempted) = accepted
          /\ Len(attempted) = Cardinality(accepted)
          /\ Cardinality(committed) = Cardinality(accepted \ failed)

\* A finished run in which a creation failed and a later record of the same batch
\* was created.
C1_Witness ==
    /\ ipc = "done"
    /\ opts.batch_size = 2
    /\ \E f \in failed : \E k \in accepted \ failed : k > f
    /\ committed # {}

\* C2: the reported "Books created" equals the number of Book rows the run
\* committed, and every record whose creation failed is counted in "Books with
\* errors".
C2_ReportMatchesDatastore ==
    \A r \in report :
        /\ r.created = Cardinality(committed)
        /\ r.errors >= Cardinality(failed)

\* The rows of a table as the running code sees them: inside the open block, else
\* the committed ones.
Table(t) == IF tx = {} THEN ents[t] ELSE UNION {x.E[t] : x \in tx}

IdsOf(t, key) == {e.id : e \in {x \in Table(t) : x.key = key}}

\* C5: resolving a natural key never makes a second entity of that key, and every
\* record resolved so far holds the id of the one entity of its key, whichever call
\* created it.
C5_GetOrCreateIdempotent ==
    /\ \A t \in EntityTypes : \A e1, e2 \in Table(t) :
          (e1.key = e2.key \/ e1.id = e2.id) => e1 = e2
    /\ \A i \in 1..Len(batch) :
          LET d == batch[i].data
              r == batch[i].row
          IN  /\ d.author = IdsOf("author", AuthorName(r.author))
              /\ Cardinality(d.author) = 1
              /\ r.genres # <<>> => d.category = IdsOf("category", r.genres[1])
              /\ r.publisher # "" => d.publisher = IdsOf("publisher", r.publisher)
              /\ r.language # "" => d.language = IdsOf("language", LanguageCode(r.language))
              /\ r.series.name # "" => d.series = IdsOf("series", r.series.name)
    /\ \A x \in tx : \A l \in x.L : \E e \in x.E[l[1]] : e.id = l[3]

\* The second run holds a batch of two records of the same author, resolved to one
\* entity.
C5_Witness ==
    /\ runs = 2
    /\ Len(batch) = 2
    /\ batch[1].data.author = batch[2].data.author
    /\ Cardinality(ents["author"]) = 1
    /\ Cardinality(ents["language"]) = 1

\* C8: with skip-duplicates on, a record whose isbn a Book row holds when the
\* record is read is counted as skipped, is not put in the batch (no creation is
\* attempted for it) and no entity is resolved or created for it.
C8_DuplicateSkipped ==
    [][\A row \in Rows :
          (ReadRow(row) /\ HoldsIsbnOf(row)) =>
              /\ books_skipped' = books_skipped + 1
              /\ books_created' = books_created
              /\ books_with_errors' = books_with_errors
              /\ batch' = batch
              /\ accepted' = accepted
              /\ ents' = ents
              /\ nextId' = nextId]_vars

\* A duplicate of a stored Book was read with skip-duplicates on, and its author
\* (A2, of RowSameIsbn) is in no table.
C8_Witness ==
    /\ dup_seen # {}
    /\ opts.skip_duplicates
    /\ \E b \in books : b.isbn = NormIsbn(RowSameIsbn, 0)
    /\ \A e \in ents["author"] : e.key # "A2"

\* C9: once more than MaxErrors records of a run have failed (in process_row or in
\* the creation of the Book), the run takes no further record from the reader.
C9_StopsAfterMaxErrors ==
    [][(ipc \notin {"idle", "done"}
        /\ books_with_errors + Cardinality(failed) > MaxErrors)
       => row_num' = row_num]_vars

\* C11: a run whose header lacks title, author or isbn ends in error at once: it
\* reads no record, holds no batch, prints no summary, and no step of it changes
\* the datastore.
C11_AbortsOnMissingColumn ==
    [][~(RequiredFields \subseteq opts'.fieldnames) =>
          /\ ipc' = "failed"
          /\ row_num' = 0
          /\ batch' = <<>>
          /\ accepted' = {}
          /\ report' = {}
          /\ UNCHANGED dbvars]_vars

\* The second run was given a header without isbn and ended in error, with the
\* Books of the first run in the datastore.
C11_Witness ==
    /\ ipc = "failed"
    /\ runs = 2
    /\ "isbn" \notin opts.fieldnames
    /\ books # {}
    /\ report = {}

\* C10 as stated: association rows of a record are written only once its Book row
\* is committed.
C10_AttachAfterCommit ==
    \A x \in tx : x.L # {} => x.book.id \in BookIds

\* C10 as amended: association rows are written only after the INSERT of the
\* record's Book row, in the transaction that inserted it and before its commit;
\* they are committed with the Book row, so no committed association is without its
\* committed Book.
C10_AttachInSameTransaction ==
    /\ \A x \in tx :
          /\ \A l \in x.L : l[2] = x.book.id
          /\ x.book \notin books
          /\ x.book.id \notin BookIds
    /\ \A l \in links : l[2] \in BookIds
    /\ ipc \in {"attach", "commit"} <=> tx # {}

\* The associations of a record are written and its Book row is not committed yet.
C10_Witness ==
    /\ ipc = "commit"
    /\ \E x \in tx : Cardinality(x.L) >= 3 /\ x.book.id \notin BookIds

\* ------------------------------------------------------------ API requests
\* A catalog whose lookup tables hold the rows the request bodies refer to (made
\* through the entity endpoints or an import) and no Book yet.
ApiEntities ==
    [t \in EntityTypes |->
        CASE t = "author" -> {[id |-> 1, key |-> "Frank Herbert", name |-> "Frank Herbert"],
                              [id |-> 2, key |-> "Jane Austen", name |-> "Jane Austen"]}
          [] t = "category" -> {[id |-> 1, key |-> "Fiction", name |-> "Fiction"]}
          [] t = "publisher" -> {[id |-> 1, key |-> "Ace Books", name |-> "Ace Books"]}
          [] t = "language" -> {[id |-> 1, key |-> "en", name |-> "English"]}
          [] t = "series" -> {[id |-> 1, key |-> "Dune Chronicles", name |-> "Dune Chronicles"]}
          [] t = "genre" -> {[id |-> 1, key |-> "Fiction", name |-> "Fiction"],
                             [id |-> 2, key |-> "Classics", name |-> "Classics"]}
          [] OTHER -> {}]

InitApi ==
    /\ books = {}
    /\ nextBookId = 1
    /\ ents = ApiEntities
    /\ nextId = [t \in EntityTypes |-> Cardinality(ApiEntities[t]) + 1]
    /\ links = {}
    /\ favorites = {}
    /\ ipc = "idle"
    /\ opts = [fieldnames |-> RequiredFields, batch_size |-> 1, limit |-> 0,
               skip_duplicates |-> FALSE, seed |-> 0]
    /\ row_num = 0
    /\ books_created = 0
    /\ books_skipped = 0
    /\ books_with_errors = 0
    /\ batch = <<>>
    /\ bi = 1
    /\ final = FALSE
    /\ tx = {}
    /\ report = {}
    /\ runs = 0
    /\ accepted = {}
    /\ attempted = <<>>
    /\ failed = {}
    /\ committed = {}
    /\ dup_seen = {}
    /\ prior = {}
    /\ resp = NoResp
    /\ streak = NoStreak
    /\ InitAuth
    /\ InitSide

AllBookIds == 1..MaxBookId

NextApi ==
    \/ \E c \in Callers, d \in BookInputs : ApiCreateBook(c, d)
    \/ \E c \in Callers, i \in AllBookIds, d \in BookInputs : ApiUpdateBook(c, i, d)
    \/ \E c \in Callers, i \in AllBookIds, price \in {0, 1500} : ApiPartialUpdateBook(c, i, price)
    \/ \E c \in Callers, i \in AllBookIds : ApiDeleteBook(c, i)
    \/ \E c \in Callers, ids \in SUBSET AllBookIds : BulkDelete(c, ids)
    \/ \E c \in Callers, p \in SingleParams : BulkDeleteFiltered(c, p)
    \/ \E c \in Callers, i \in {0} \cup AllBookIds : ToggleFavorite(c, i)

SpecApi == InitApi /\ [][NextApi]_vars

\* Searches over a catalog built through the API.
NextSearch ==
    \/ \E d \in BookInputs : ApiCreateBook("u1", d)
    \/ \E c \in Users : ToggleFavorite(c, 1)
    \/ \E p \in SearchParams : Search("u1", p)
    \/ \E p \in SingleParams : Search("anon", p)

SpecSearch == InitApi /\ [][NextSearch]_vars

\* Favorites toggled over a catalog whose books come and go.
NextFavorite ==
    \/ \E c \in Callers, d \in BookInputs : ApiCreateBook(c, d)
    \/ \E c \in Callers, i \in AllBookIds : ApiDeleteBook(c, i)
    \/ \E c \in Callers, i \in {0} \cup AllBookIds : ToggleFavorite(c, i)

SpecFavorite == InitApi /\ [][NextFavorite]_vars

\* One import run over records that differ in their date, price, rating,
\* likedPercent and cover columns, followed by API requests on the catalog.
MaxFieldRows == 2

SlashDate2(a, b, y) == [shape |-> "slash2", a |-> a, b |-> b, y |-> y]
SlashDate4(a, b, y) == [shape |-> "slash4", a |-> a, b |-> b, y |-> y]
IsoDate(y, m, d) == [shape |-> "iso", a |-> m, b |-> d, y |-> y]
JunkDate == [shape |-> "junk", a |-> 0, b |-> 0, y |-> 0]
Number(n) == [shape |-> "number", n |-> n]
JunkNumber == [shape |-> "junk", n |-> 0]

DateInputs ==
    {SlashDate2(1, 15, 99), SlashDate2(1, 15, 45), SlashDate4(1, 15, 1999),
     SlashDate4(13, 1, 1999), SlashDate4(1, 15, 1850), IsoDate(1999, 5, 1),
     IsoDate(1850, 5, 1), IsoDate(2045, 1, 5), IsoDate(2020, 13, 1), JunkDate}

FieldRows ==
    {[RowFull EXCEPT !.publishDate = d] : d \in DateInputs}
    \cup {[RowFull EXCEPT !.firstPublishDate = d] : d \in {IsoDate(1999, 5, 1)}}
    \cup {[RowFull EXCEPT !.price = x] : x \in {Number(0), Number(1250), Number(100000), JunkNumber}}
    \cup {[RowFull EXCEPT !.rating = x] : x \in {Number(0), Number(450), Number(501)}}
    \cup {[RowFull EXCEPT !.likedPercent = x] : x \in {Number(95), Number(150), JunkNumber}}
    \cup {[RowFull EXCEPT !.coverImg = "http://covers/1"], RowFull}

CoverRequest == [NoParams EXCEPT !.has_cover_image = {TRUE}]

NextFields ==
    \/ /\ runs < 1
       /\ StartImport(RequiredFields, 1, 0, FALSE, 0)
    \/ /\ row_num < MaxFieldRows
       /\ \E row \in FieldRows : ReadRow(row)
    \/ EndOfFile
    \/ CreateBook
    \/ AttachM2M
    \/ Commit
    \/ /\ ipc = "done"
       /\ \/ \E c \in Callers, d \in BookInputs : ApiCreateBook(c, d)
          \/ \E c \in Callers, i \in AllBookIds, price \in {0, 1500} :
                ApiPartialUpdateBook(c, i, price)
          \/ \E c \in Callers : Search(c, CoverRequest)

SpecFields == Init /\ [][NextFields]_vars

\* An import run, then API writes of Books and deletions of lookup rows.
LifecycleRows == {RowFull, RowSameIsbn, RowNoIsbn}

NextLifecycle ==
    \/ /\ runs < 1
       /\ StartImport(RequiredFields, 1, 0, TRUE, 0)
    \/ /\ row_num < MaxRows
       /\ \E row \in LifecycleRows : ReadRow(row)
    \/ EndOfFile
    \/ CreateBook
    \/ AttachM2M
    \/ Commit
    \/ /\ ipc \in {"idle", "done"}
       /\ \/ \E d \in BookInputs : ApiCreateBook("u1", d)
          \/ \E i \in AllBookIds, d \in BookInputs : ApiUpdateBook("u1", i, d)
          \/ \E t \in ForeignKeyTypes, i \in AllBookIds : ApiDeleteEntity("u1", t, i)

SpecLifecycle == Init /\ [][NextLifecycle]_vars

\* Searches by genre list and by favorites_only, alone and with an ordering or
\* another filter, over a catalog built through the API.
GenreRequests ==
    LET byGenre == {[NoParams EXCEPT !.genres = {G}] : G \in {{1}, {2}, {1, 2}, {3}}}
    IN  byGenre
        \cup {[p EXCEPT !.ordering = {"-price"}] : p \in byGenre}
        \cup {[p EXCEPT !.category = {1}] : p \in byGenre}
        \cup {[p EXCEPT !.favorites_only = {TRUE}] : p \in byGenre}

FavoriteRequests ==
    {[NoParams EXCEPT !.favorites_only = {TRUE}],
     [NoParams EXCEPT !.favorites_only = {TRUE}, !.author = {2}],
     NoParams}

NextFilteredSearch ==
    \/ \E c \in Callers, d \in BookInputs : ApiCreateBook(c, d)
    \/ \E c \in Callers, i \in AllBookIds : ToggleFavorite(c, i)
    \/ \E c \in Callers, p \in GenreRequests \cup FavoriteRequests : Search(c, p)

SpecFilteredSearch == InitApi /\ [][NextFilteredSearch]_vars

\* Logins, logouts and the passing of time.
SpecLogout == InitApi /\ [][NextLogout]_vars

\* Filtered deletions by price over a catalog whose prices change.
PriceRange == [NoParams EXCEPT !.min_price = {1000}, !.max_price = {2000}]

PriceRequests ==
    {PriceRange, [NoParams EXCEPT !.min_price = {2000}],
     [NoParams EXCEPT !.max_price = {1000}]}

NextPriceDelete ==
    \/ \E c \in Callers, d \in BookInputs : ApiCreateBook(c, d)
    \/ \E c \in Callers, i \in AllBookIds, price \in {0, 500, 1500} :
          ApiPartialUpdateBook(c, i, price)
    \/ \E c \in Callers, i \in AllBookIds : ToggleFavorite(c, i)
    \/ \E c \in Callers, p \in PriceRequests : BulkDeleteFiltered(c, p)

SpecPriceDelete == InitApi /\ [][NextPriceDelete]_vars

\* Favorite requests of one user racing for a book that exists and one that does not.
SpecConcurrent == InitApi /\ [][NextConcurrent]_vars

\* Web requests with every cookie while the clock runs.
SpecWeb == InitApi /\ [][NextWeb]_vars

\* Genres made through the API, books filed under them, and clean_genres.
SpecGenres == InitApi /\ [][NextGenres]_vars

\* ------------------------------------------------------------- API claims
\* C3: a successful bulk deletion (by id list or by filter) reports as
\* deleted_count the number of Book rows it removed.
C3_DeletedCountIsBooksRemoved ==
    [][(resp'.op \in {"bulk_delete", "bulk_delete_filtered"} /\ resp'.status = 200)
       => resp'.deleted_count = Cardinality(books) - Cardinality(books')]_vars

MutatingOps == {"create", "update", "partial_update", "destroy", "bulk_delete",
                "bulk_delete_filtered", "toggle"}

\* C4: a request of an unauthenticated caller that would create, change or delete
\* catalog data does not succeed and leaves the datastore as it was.
C4_AnonymousCannotMutate ==
    [][(resp'.caller = "anon" /\ resp'.op \in MutatingOps)
       => (resp'.status \notin {200, 201, 204} /\ UNCHANGED dbvars)]_vars

\* C6: a successful toggle of (user, book) adds the Favorite when there is none and
\* removes it when there is one, reports is_favorited as the presence of the
\* Favorite after the call, and a second toggle right after the first leaves the
\* Favorite as it was before the first.
C6_ToggleFlips ==
    [][(resp'.op = "toggle" /\ resp'.status = 200) =>
          LET f == <<resp'.caller, resp'.book_id>>
          IN  /\ f \notin favorites => favorites' = favorites \cup {f}
              /\ f \in favorites => favorites' = favorites \ {f}
              /\ resp'.is_favorited = (f \in favorites')
              /\ streak'.n = 2 => (f \in favorites') = streak'.before]_vars

\* A user toggled a book twice in a row, starting without the Favorite: the second
\* call reported false.
C6_Witness ==
    /\ resp.op = "toggle"
    /\ resp.status = 200
    /\ streak.n = 2
    /\ ~streak.before
    /\ ~resp.is_favorited
    /\ <<streak.user, streak.book>> \notin favorites

\* The requests C7 is about: no genre list, favorites_only, has_cover_image or
\* ordering sent.
C7Params ==
    {p \in SearchParams : /\ p.genres = {}
                          /\ p.favorites_only = {}
                          /\ p.has_cover_image = {}
                          /\ p.ordering = {}}

\* Book b satisfies every predicate sent in p.
C7Matches(b, p) ==
    /\ \A t \in p.search : SearchTextMatch(b, t)
    /\ p.category # {} => b.category = p.category
    /\ p.author # {} => b.author = p.author
    /\ p.publisher # {} => b.publisher = p.publisher
    /\ p.language # {} => b.language = p.language
    /\ p.series # {} => b.series = p.series
    /\ p.book_format # {} => b.book_format = p.book_format
    /\ \A v \in p.min_price : b.price >= v
    /\ \A v \in p.max_price : b.price <= v
    /\ \A v \in p.min_rating : \E r \in b.average_rating : r >= v
    /\ \A v \in p.max_rating : \E r \in b.average_rating : r <= v
    /\ \A v \in p.min_publication_date : b.publication_date >= v
    /\ \A v \in p.max_publication_date : b.publication_date <= v

\* C7: for every accepted request, search returns exactly the books that satisfy
\* every predicate sent.
C7_SearchReturnsExactlyTheMatches ==
    [][\A c \in Callers, p \in C7Params :
          (Search(c, p) /\ ValidSearch(p)) =>
              {r[1] : r \in resp'.result} = {b.id : b \in {x \in books : C7Matches(x, p)}}]_vars

\* C12: a successful bulk_delete_filtered with min_price=10, max_price=20 and
\* nothing else removes exactly the books priced from 10.00 to 20.00, bounds
\* included, with their Favorite and association rows, and leaves every other
\* row as it was.
C12_PriceRangeDeletesExactly ==
    [][(resp'.op = "bulk_delete_filtered" /\ resp'.status = 200
        /\ resp'.params = PriceRange) =>
          LET gone == {b \in books : 1000 <= b.price /\ b.price <= 2000}
              ids == {b.id : b \in gone}
          IN  /\ books' = books \ gone
              /\ favorites' = {f \in favorites : f[2] \notin ids}
              /\ links' = {l \in links : l[2] \notin ids}
              /\ UNCHANGED <<ents, nextId, nextBookId>>]_vars

\* The price-range deletion removed a book and left one priced above the range.
C12_Witness ==
    /\ resp.op = "bulk_delete_filtered"
    /\ resp.status = 200
    /\ resp.params = PriceRange
    /\ resp.deleted_count >= 1
    /\ \E b \in books : b.price > 2000

\* C13: every date the import's parser returns has its year in [1900, 2030],
\* and "1/15/99" is read as a day of 1999.
C13_ParsedYearInRange ==
    /\ \A i \in 1..Len(batch) :
          /\ YearOf(batch[i].data.publication_date) \in MinYear..MaxYear
          /\ batch[i].row.publishDate = SlashDate2(1, 15, 99)
                => batch[i].data.publication_date = 19990115
    /\ \A b \in books : YearOf(b.publication_date) \in MinYear..MaxYear

\* C15: every Book row has price > 0, average_rating null or in [0, 5] and
\* liked_percent null or in [0, 100].
C15_BookFieldsInRange ==
    \A b \in books :
        /\ b.price > 0
        /\ \A r \in b.average_rating : 0 <= r /\ r <= 500
        /\ \A l \in b.liked_percent : 0 <= l /\ l <= 100

\* The book has an uploaded cover or an external cover URL.
HasCover(b) ==
    \/ b.cover_image \notin {{}, {""}}
    \/ b.cover_image_url \notin {{}, {""}}

\* C17: a search with has_cover_image=true and nothing else returns exactly the
\* books that have a cover.
C17_HasCoverReturnsBooksWithCover ==
    [][(resp'.op = "search" /\ resp'.status = 200 /\ resp'.params = CoverRequest)
       => {r[1] : r \in resp'.result} = {b.id : b \in {x \in books : HasCover(x)}}]_vars

\* C14: two Books whose isbn was synthesized from the same title and author,
\* in whichever runs, carry the same isbn.
C14_SynthesizedIsbnDeterministic ==
    \A b1, b2 \in books :
        (/\ b1.isbn.auto
         /\ b2.isbn.auto
         /\ b1.isbn.title = b2.isbn.title
         /\ b1.isbn.author = b2.isbn.author) => b1.isbn = b2.isbn

\* C16: every Book refers to an Author row that exists; deleting an Author
\* removes exactly that author's Books; deleting a Category, Publisher, Language
\* or Series removes no Book and changes nothing in the Books but the references
\* to the deleted row, which become null.
C16_AuthorRequiredOthersSetNull ==
    [][/\ \A b \in books' :
             /\ Cardinality(b.author) = 1
             /\ \A a \in b.author : \E e \in ents'["author"] : e.id = a
       /\ \A c \in Callers, t \in ForeignKeyTypes, i \in AllBookIds :
             (ApiDeleteEntity(c, t, i) /\ resp'.status = 204) =>
                IF t = "author"
                THEN books' = {b \in books : b.author # {i}}
                ELSE /\ {b.id : b \in books'} = {b.id : b \in books}
                     /\ \A b \in books : \E n \in books' :
                           /\ n = [b EXCEPT ![t] = n[t]]
                           /\ n[t] = IF b[t] = {i} THEN {} ELSE b[t]]_vars

\* A Category row was deleted while a Book referred to it: the Book is there, its
\* category is null and its author exists.
C16_Witness ==
    /\ resp.op = "destroy_entity"
    /\ resp.status = 204
    /\ ents["category"] = {}
    /\ \E b \in books : b.category = {} /\ b.author # {} /\ b.publisher # {}
    /\ Cardinality(ents["author"]) >= 1

\* The ids of the books a search without the parameter f of the last request
\* returns to its caller.
IdsWithout(f) ==
    {r[1].id : r \in SearchQueryset([resp'.params EXCEPT ![f] = {}], resp'.caller)}

\* C18: a successful search with a non-empty genre list returns the books that
\* have at least one of the listed genres (among those its other filters keep),
\* each of them once, whatever the ordering.
C18_GenreSearchAnyOfOnce ==
    [][(resp'.op = "search" /\ resp'.status = 200
        /\ \E G \in resp'.params.genres : G # {}) =>
          LET G == UNION resp'.params.genres
              ids == {r[1] : r \in resp'.result}
              having == {b.id : b \in {x \in books : \E g \in G : <<"genre", x.id, g>> \in links}}
          IN  /\ ids = having \cap IdsWithout("genres")
              /\ \A r1, r2 \in resp'.result : r1[1] = r2[1] => r1 = r2]_vars

\* A search for genres 1 and 2 returned a book that has both.
C18_Witness ==
    /\ resp.op = "search"
    /\ resp.status = 200
    /\ resp.params.genres = {{1, 2}}
    /\ \E b \in books :
          /\ {<<"genre", b.id, 1>>, <<"genre", b.id, 2>>} \subseteq links
          /\ \E r \in resp.result : r[1] = b.id

\* C19: a successful search with favorites_only=true returns to an authenticated
\* caller the books of the search without it that the caller has favorited, and
\* to an unauthenticated caller what the search without it returns.
C19_FavoritesOnlyOwnOrNoop ==
    [][(resp'.op = "search" /\ resp'.status = 200
        /\ resp'.params.favorites_only = {TRUE}) =>
          LET ids == {r[1] : r \in resp'.result}
              own == {f[2] : f \in {x \in favorites : x[1] = resp'.caller}}
          IN  IF resp'.caller \in Users
              THEN ids = own \cap IdsWithout("favorites_only")
              ELSE ids = IdsWithout("favorites_only")]_vars

\* The search of u1 with favorites_only returned u1's favorite and not the book
\* that only u2 has favorited.
C19_Witness ==
    /\ resp.op = "search"
    /\ resp.status = 200
    /\ resp.caller = "u1"
    /\ resp.params = [NoParams EXCEPT !.favorites_only = {TRUE}]
    /\ resp.result # {}
    /\ \E b \in books :
          /\ <<"u2", b.id>> \in favorites
          /\ <<"u1", b.id>> \notin favorites
          /\ \A r \in resp.result : r[1] # b.id

\* The search of an unauthenticated caller with favorites_only returned the
\* whole catalog, in which a book is some user's favorite.
C19_WitnessAnonymous ==
    /\ resp.op = "search"
    /\ resp.status = 200
    /\ resp.caller = "anon"
    /\ resp.params = [NoParams EXCEPT !.favorites_only = {TRUE}]
    /\ favorites # {}
    /\ {r[1] : r \in resp.result} = {b.id : b \in books}
    /\ Cardinality(books) = 2

\* C20: a logout by an authenticated caller with a well-formed refresh token
\* that is already blacklisted or expired returns success, one with a token
\* that cannot be parsed returns an error, and the token of a successful
\* logout is blacklisted.
C20_LogoutToleratesInvalidToken ==
    logout.status \notin {0, 401} =>
        /\ logout.was \in {"blacklisted", "expired"} => logout.status = 205
        /\ logout.was = "unparseable" => logout.status = 400
        /\ logout.status = 205 => logout.jti \in blacklist

\* What the view does hold to: only a valid token is answered with success,
\* and its jti is then blacklisted; everything else is answered with 400.
C20_LogoutAsImplemented ==
    logout.status \notin {0, 401} =>
        /\ logout.status = (IF logout.was = "valid" THEN 205 ELSE 400)
        /\ logout.status = 205 => logout.jti \in blacklist

\* A second logout with the same token was answered with 400.
C20_Witness ==
    /\ logout.status = 400
    /\ logout.was = "blacklisted"
    /\ logout.jti \in blacklist

C22_OptionalFieldNeverFails ==
    [][\A row \in Rows :
          (/\ ReadRow(row)
           /\ row.title # ""
           /\ row.author # <<>>
           /\ row.short # "head"
           /\ ProcessRow([row EXCEPT !.short = "no"], opts.skip_duplicates, opts.seed,
                         books, ents, nextId).outcome # "error")
          => books_with_errors' = books_with_errors]_vars

\* C23: two import runs over the same CSV, each from an empty datastore and with
\* the same limit and skip-duplicates flag, end with the same report and the
\* same datastore contents whatever their batch sizes.
C23_BatchSizeIndependent ==
    (ipc = "done" /\ runs = 2) =>
        \A pr \in prior :
            (pr.opts.limit = opts.limit /\ pr.opts.skip_duplicates = opts.skip_duplicates)
            => (report = pr.report /\ Contents = pr.contents)

\* What does hold: the runs with the same options, batch size included, end alike.
C23_SameOptionsSameOutcome ==
    (ipc = "done" /\ runs = 2) =>
        \A pr \in prior :
            pr.opts = opts => (report = pr.report /\ Contents = pr.contents)

C25_FailedCreationLeavesNoEntity ==
    (ipc = "done" /\ books_with_errors = 0) =>
        /\ \A t \in ForeignKeyTypes : \A e \in ents[t] : \E b \in books : e.id \in b[t]
        /\ \A t \in EntityTypes \ ForeignKeyTypes :
              \A e \in ents[t] : \E l \in links : l[1] = t /\ l[3] = e.id

\* C26: every stored Book has an ISBN that validate_isbn accepts: 13 characters,
\* all digits (a synthesized "AUTO..." ISBN is neither).
C26_StoredIsbnAccepted ==
    \A b \in books : ~b.isbn.auto /\ IsDigits13(b.isbn.text)

\* C27: a successful bulk delete by filter removes only Books that a search with
\* the same parameters by the same caller returns.
C27_FilteredDeleteWithinSearch ==
    [][(resp'.op = "bulk_delete_filtered" /\ resp'.status = 200) =>
          {b.id : b \in books} \ {b.id : b \in books'}
              \subseteq {r[1].id : r \in SearchQueryset(resp'.params, resp'.caller)}]_vars


\* C28: however the statements of concurrent toggle and create requests for
\* one user and one book interleave, the Favorite table never holds two rows
\* of that (user, book) pair, and the book of every Favorite row is stored.
C28_OneFavoritePerPair ==
    /\ \A r1, r2 \in favRows :
          (r1.user = r2.user /\ r1.book = r2.book) => r1.id = r2.id
    /\ \A r \in favRows : \E b \in books : b.id = r.book

\* Two requests both found no Favorite; one inserted it, the INSERT of the
\* other, a toggle, hit the unique constraint and it reads again.
C28_Witness ==
    \E i, j \in DOMAIN procs :
        /\ i # j
        /\ procs[i].created /\ procs[i].pc = "done"
        /\ procs[j].kind = "toggle" /\ procs[j].pc = "reget"
        /\ procs[i].user = procs[j].user /\ procs[i].book = procs[j].book
        /\ Cardinality(favRows) = 1

\* C29: a request to a protected path continues to the view only when the
\* access_token cookie is a valid token of an existing user and request.user
\* was set to that user; every other request to a protected path (no cookie,
\* an invalid or expired token, a token without user id, an unknown user) is
\* redirected to the login page.
C29_ProtectedPathNeedsUser ==
    (mw.action # "none" /\ ProtectedPath(mw.path)) =>
        IF mw.was = "valid" /\ mw.cookie.user_id \in Users
        THEN mw.action = "continue" /\ mw.user = {mw.cookie.user_id}
        ELSE mw.action = "redirect"

\* The part of C29 that holds: a protected request without a usable token, or
\* with the token of an unknown user, is redirected, and the token of an
\* existing user continues with request.user set.
C29_ExceptTokenWithoutUserId ==
    (mw.action # "none" /\ ProtectedPath(mw.path)
        /\ ~(mw.was = "valid" /\ mw.cookie.user_id = "")) =>
        IF mw.was = "valid" /\ mw.cookie.user_id \in Users
        THEN mw.action = "continue" /\ mw.user = {mw.cookie.user_id}
        ELSE mw.action = "redirect"

\* On a protected path that continues, the view's get_user_from_jwt finds
\* the user the middleware put in request.user, or none where it put none.
C29_SameUserAsView ==
    (mw.action = "continue" /\ ProtectedPath(mw.path)) => mw.seen = mw.user

\* The step is a run of clean_genres.
C30_Ran == cleanup'.n # cleanup.n

\* Every book filed under a genre whose name cleans to a non-empty c is
\* filed, after the run, under a genre named c.
C30_BooksUnderCleanedName ==
    \A e \in ents["genre"] :
        clean_genre_name(e.name) # "" =>
            \A l \in links :
                (l[1] = "genre" /\ l[3] = e.id) =>
                    \E x \in ents'["genre"] :
                        /\ x.name = clean_genre_name(e.name)
                        /\ <<"genre", l[2], x.id>> \in links'

C30_NamesUnique ==
    \A x, y \in ents'["genre"] : x.name = y.name => x.id = y.id

\* The links of a book to the genres whose name was clean already stay.
C30_OtherLinksKept ==
    \A l \in links :
        (l[1] = "genre" =>
            \E e \in ents["genre"] : e.id = l[3] /\ clean_genre_name(e.name) = e.name)
        => l \in links'

\* C30: after a run of clean_genres that is no dry run, every book that was
\* filed under a genre whose cleaned name c is not empty is filed under a
\* genre named c, no two genres share a name and no book lost a link to
\* another genre; a dry run changes nothing.
C30_CleanGenresEffect ==
    [][C30_Ran =>
          IF cleanup'.dry_run
          THEN ents' = ents /\ links' = links /\ books' = books
          ELSE C30_BooksUnderCleanedName /\ C30_NamesUnique /\ C30_OtherLinksKept]_vars

\* The parts of C30 that hold in every run: unique names, the other links,
\* the dry run.
C30_ExceptChainedNames ==
    [][C30_Ran =>
          IF cleanup'.dry_run
          THEN ents' = ents /\ links' = links /\ books' = books
          ELSE C30_NamesUnique /\ C30_OtherLinksKept]_vars

\* Where no genre's cleaned name is the uncleaned name of another genre, the
\* books do end under the cleaned name.
C30_WithoutChainedNames ==
    [][(C30_Ran /\ ~cleanup'.dry_run
         /\ ~\E e, f \in ents["genre"] :
                /\ e.id # f.id
                /\ clean_genre_name(e.name) = f.name
                /\ clean_genre_name(f.name) # f.name)
          => C30_BooksUnderCleanedName]_vars
====
